---- MODULE Spec2Model ----
(***************************************************************************)
(* Model of the Postgres wallet storage plugin                             *)
(* (experimental/plugins/postgres_storage/src/postgres_storage.rs).        *)
(*                                                                         *)
(* The database is the four tables of _CREATE_SCHEMA, each a set of rows,  *)
(* plus the two BIGSERIAL sequences.  Every SQL statement of the source is *)
(* an operator from a database to a database and an outcome; every method  *)
(* of PostgresStorageType and PostgresStorage is an operator built from    *)
(* its statements, and one action of the state machine.                    *)
(***************************************************************************)
EXTENDS Integers, Sequences, FiniteSets, TLC

VARIABLES
    db,       \* the "wallets" database: the four tables and the two sequences
    handles,  \* wallet ids for which an open PostgresStorage exists
    calls     \* the calls in flight, by caller: position and locals of each;
              \* <<>> where every call runs from start to end in one step

vars == <<db, handles, calls>>

----------------------------------------------------------------------------
(* Bounds of the model *)

\* longest tag list / tag name list passed to one call
MaxTags == 2
\* calls of nextval on the items id sequence
MaxItemId == 2
\* calls of nextval on the metadata id sequence
MaxMetaId == 2

----------------------------------------------------------------------------
(* Data *)

Wallets == {"w1", "w2"}
Types == {1, 2}
Names == {1}
EncryptedValues == {[data |-> 1, key |-> 2], [data |-> 2, key |-> 1]}
Metadatas == {1, 2}

\* wql::storage::Tag: Encrypted(name, value) | PlainText(name, value)
Encrypted(name, value) == [variant |-> "Encrypted", name |-> name, value |-> value]
PlainText(name, value) == [variant |-> "PlainText", name |-> name, value |-> value]
\* wql::storage::TagName: OfEncrypted(name) | OfPlain(name)
OfEncrypted(name) == [variant |-> "OfEncrypted", name |-> name]
OfPlain(name) == [variant |-> "OfPlain", name |-> name]

\* the tags calls are made with: one name in both variants, with two values
\* in one of them
Tags == {Encrypted(1, 1), Encrypted(1, 2), PlainText(1, 1)}
TagNames == {OfEncrypted(1), OfPlain(1)}

SeqsUpTo(S, n) == UNION {[1..k -> S] : k \in 0..n}
TagLists == SeqsUpTo(Tags, MaxTags)
TagNameLists == SeqsUpTo(TagNames, MaxTags)

Range(s) == {s[i] : i \in DOMAIN s}

\* Option<T>: None is <<>>, Some(x) is <<x>>
None == <<>>
Some(x) == <<x>>

\* every order in which the rows of a result set can be delivered
Orders(S) == {f \in [1..Cardinality(S) -> S] : \A x \in S : \E i \in DOMAIN f : f[i] = x}

----------------------------------------------------------------------------
(* RecordOptions *)

\* an options document: the set of <<key, value>> pairs it holds; "{}" is {}
OptionDocs ==
    { {<<"retrieveType", TRUE>>, <<"retrieveValue", TRUE>>, <<"retrieveTags", TRUE>>},
      {<<"retrieveType", FALSE>>, <<"retrieveValue", TRUE>>, <<"retrieveTags", TRUE>>},
      {<<"retrieveValue", FALSE>>},
      {<<"retrieveTags", TRUE>>},
      {} }

\* a default_false that returns true
default_false_ReturnsTrue == TRUE

default_true == TRUE
default_false == FALSE

\* the value a document gives a key, or the key's serde default
Field(doc, key, default) ==
    IF \E p \in doc : p[1] = key THEN (CHOOSE p \in doc : p[1] = key)[2] ELSE default

\* serde defaults of RecordOptions; "{}" gives RecordOptions::default()
RecordOptions(doc) ==
    IF doc = {}
    THEN [retrieve_type |-> FALSE, retrieve_value |-> TRUE, retrieve_tags |-> FALSE]
    ELSE [retrieve_type  |-> Field(doc, "retrieveType", default_false),
          retrieve_value |-> Field(doc, "retrieveValue", default_true),
          retrieve_tags  |-> Field(doc, "retrieveTags", default_false)]

----------------------------------------------------------------------------
(* The schema: rows, keys and constraints *)

EmptyDb ==
    [metadata        |-> {},   \* rows [wallet_id, id, value]
     items           |-> {},   \* rows [wallet_id, id, type, name, value, key]
     tags_encrypted  |-> {},   \* rows [wallet_id, name, value, item_id]
     tags_plaintext  |-> {},   \* rows [wallet_id, name, value, item_id]
     items_id_seq    |-> 0,    \* last value of the BIGSERIAL of items.id
     metadata_id_seq |-> 0]    \* last value of the BIGSERIAL of metadata.id

\* SQLSTATE codes the source matches on
UNIQUE_VIOLATION == "23505"
INTEGRITY_CONSTRAINT_VIOLATION == "23000"
FOREIGN_KEY_VIOLATION == "23503"
NoError == "00000"

\* items with its primary key only, the index on (wallet_id, type, name) left out
ItemsUniqueOk_PrimaryKeyOnly(rows, r) ==
    ~ \E x \in rows : x.wallet_id = r.wallet_id /\ x.id = r.id

\* PRIMARY KEY(wallet_id, id) and ux_items_type_name ON items(wallet_id, type, name)
\* ux_items_type_name without its wallet_id column
ItemsUniqueOk_AcrossWallets(rows, r) ==
    /\ \A x \in rows : ~ (x.wallet_id = r.wallet_id /\ x.id = r.id)
    /\ \A x \in rows : ~ (x.type = r.type /\ x.name = r.name)

ItemsUniqueOk(rows, r) ==
    /\ ~ \E x \in rows : x.wallet_id = r.wallet_id /\ x.id = r.id
    /\ ~ \E x \in rows : x.wallet_id = r.wallet_id /\ x.type = r.type /\ x.name = r.name

\* a tag primary key that also covers the value column
TagsUniqueOk_WithValue(rows, r) ==
    ~ \E x \in rows : x.wallet_id = r.wallet_id /\ x.name = r.name /\ x.value = r.value
                        /\ x.item_id = r.item_id

\* PRIMARY KEY(wallet_id, name, item_id) of tags_encrypted and tags_plaintext
TagsUniqueOk(rows, r) ==
    ~ \E x \in rows : x.wallet_id = r.wallet_id /\ x.name = r.name /\ x.item_id = r.item_id

\* FOREIGN KEY(wallet_id, item_id) REFERENCES items(wallet_id, id)
TagsForeignKeyOk(d, r) ==
    \E x \in d.items : x.wallet_id = r.wallet_id /\ x.id = r.item_id

\* PRIMARY KEY(wallet_id, id) and ux_metadata_values ON metadata(wallet_id, value)
MetadataUniqueOk(rows, r) ==
    /\ ~ \E x \in rows : x.wallet_id = r.wallet_id /\ x.id = r.id
    /\ ~ \E x \in rows : x.wallet_id = r.wallet_id /\ x.value = r.value

TagTable(variant) ==
    IF variant \in {"Encrypted", "OfEncrypted"} THEN "tags_encrypted" ELSE "tags_plaintext"

----------------------------------------------------------------------------
(* SQL statements.  Each returns [db, code, ...]: the database after the   *)
(* statement and its SQLSTATE (NoError when it succeeded).  A statement    *)
(* that fails changes no row.                                              *)

\* SELECT id, value, key FROM items WHERE wallet_id = $1 AND type = $2 AND name = $3
SelectItem(d, wallet_id, type_, id) ==
    {x \in d.items : x.wallet_id = wallet_id /\ x.type = type_ /\ x.name = id}

\* SELECT name, value FROM tags_encrypted WHERE wallet_id = $1 AND item_id = $2
SelectEncryptedTags(d, wallet_id, item_id) ==
    {Encrypted(x.name, x.value) :
        x \in {y \in d.tags_encrypted : y.wallet_id = wallet_id /\ y.item_id = item_id}}

\* SELECT name, value FROM tags_plaintext WHERE wallet_id = $1 AND item_id = $2
SelectPlainTags(d, wallet_id, item_id) ==
    {PlainText(x.name, x.value) :
        x \in {y \in d.tags_plaintext : y.wallet_id = wallet_id /\ y.item_id = item_id}}

\* the INSERT with value.key and value.data bound to each other's column
InsertItem_SwapsValueAndKey(d, wallet_id, type_, id, value) ==
    LET item_id == d.items_id_seq + 1
        row == [wallet_id |-> wallet_id, id |-> item_id, type |-> type_, name |-> id,
                value |-> value.key, key |-> value.data]
        drawn == [d EXCEPT !.items_id_seq = item_id]
    IN  IF ItemsUniqueOk(d.items, row)
        THEN [db |-> [drawn EXCEPT !.items = @ \cup {row}], code |-> NoError, item_id |-> item_id]
        ELSE [db |-> drawn, code |-> UNIQUE_VIOLATION, item_id |-> 0]

\* an INSERT whose id default is the smallest id no stored item has
InsertItem_ReusesId(d, wallet_id, type_, id, value) ==
    LET item_id == CHOOSE i \in 1..(d.items_id_seq + 1) :
                       /\ \A x \in d.items : x.id # i
                       /\ \A j \in 1..(i - 1) : \E x \in d.items : x.id = j
        row == [wallet_id |-> wallet_id, id |-> item_id, type |-> type_, name |-> id,
                value |-> value.data, key |-> value.key]
        drawn == [d EXCEPT !.items_id_seq = @ + 1]
    IN  IF ItemsUniqueOk(d.items, row)
        THEN [db |-> [drawn EXCEPT !.items = @ \cup {row}], code |-> NoError, item_id |-> item_id]
        ELSE [db |-> drawn, code |-> UNIQUE_VIOLATION, item_id |-> 0]

\* INSERT INTO items (wallet_id, type, name, value, key) VALUES (...) RETURNING id
\* The id default takes nextval of the sequence before the unique index is
\* checked, and a sequence is never rolled back.
InsertItem(d, wallet_id, type_, id, value) ==
    LET item_id == d.items_id_seq + 1
        row == [wallet_id |-> wallet_id, id |-> item_id, type |-> type_, name |-> id,
                value |-> value.data, key |-> value.key]
        drawn == [d EXCEPT !.items_id_seq = item_id]
    IN  IF ItemsUniqueOk(d.items, row)
        THEN [db |-> [drawn EXCEPT !.items = @ \cup {row}], code |-> NoError, item_id |-> item_id]
        ELSE [db |-> drawn, code |-> UNIQUE_VIOLATION, item_id |-> 0]

\* the tag INSERT of add written with the ON CONFLICT clause of add_tags
InsertTag_OnConflictUpdate(d, wallet_id, item_id, tag) ==
    LET row == [wallet_id |-> wallet_id, name |-> tag.name, value |-> tag.value, item_id |-> item_id]
        table == TagTable(tag.variant)
        others == {x \in d[table] : ~ (x.wallet_id = wallet_id /\ x.name = tag.name /\ x.item_id = item_id)}
    IN  IF ~ TagsForeignKeyOk(d, row) THEN [db |-> d, code |-> FOREIGN_KEY_VIOLATION]
        ELSE [db |-> [d EXCEPT ![table] = others \cup {row}], code |-> NoError]

\* INSERT INTO tags_encrypted / tags_plaintext (wallet_id, item_id, name, value) VALUES (...)
InsertTag(d, wallet_id, item_id, tag) ==
    LET row == [wallet_id |-> wallet_id, name |-> tag.name, value |-> tag.value, item_id |-> item_id]
        table == TagTable(tag.variant)
    IN  IF ~ TagsUniqueOk(d[table], row) THEN [db |-> d, code |-> UNIQUE_VIOLATION]
        ELSE IF ~ TagsForeignKeyOk(d, row) THEN [db |-> d, code |-> FOREIGN_KEY_VIOLATION]
        ELSE [db |-> [d EXCEPT ![table] = @ \cup {row}], code |-> NoError]

\* the upsert written as ON CONFLICT DO NOTHING: a stored tag keeps its value
UpsertTag_DoNothing(d, wallet_id, item_id, tag) ==
    LET row == [wallet_id |-> wallet_id, name |-> tag.name, value |-> tag.value, item_id |-> item_id]
        table == TagTable(tag.variant)
    IN  IF ~ TagsForeignKeyOk(d, row) THEN [db |-> d, code |-> FOREIGN_KEY_VIOLATION]
        ELSE IF ~ TagsUniqueOk(d[table], row) THEN [db |-> d, code |-> NoError]
        ELSE [db |-> [d EXCEPT ![table] = @ \cup {row}], code |-> NoError]

\* INSERT ... ON CONFLICT (wallet_id, name, item_id) DO UPDATE SET value = excluded.value
UpsertTag(d, wallet_id, item_id, tag) ==
    LET row == [wallet_id |-> wallet_id, name |-> tag.name, value |-> tag.value, item_id |-> item_id]
        table == TagTable(tag.variant)
        others == {x \in d[table] : ~ (x.wallet_id = wallet_id /\ x.name = tag.name /\ x.item_id = item_id)}
    IN  IF ~ TagsForeignKeyOk(d, row) THEN [db |-> d, code |-> FOREIGN_KEY_VIOLATION]
        ELSE [db |-> [d EXCEPT ![table] = others \cup {row}], code |-> NoError]

\* DELETE FROM tags_encrypted WHERE wallet_id = $1 AND item_id = $2
DeleteEncryptedTagsOfItem(d, wallet_id, item_id) ==
    [d EXCEPT !.tags_encrypted = {x \in @ : ~ (x.wallet_id = wallet_id /\ x.item_id = item_id)}]

\* the second DELETE of update_tags aimed at tags_encrypted again
DeletePlainTagsOfItem_WrongTable(d, wallet_id, item_id) ==
    [d EXCEPT !.tags_encrypted = {x \in @ : ~ (x.wallet_id = wallet_id /\ x.item_id = item_id)}]

\* DELETE FROM tags_plaintext WHERE wallet_id = $1 AND item_id = $2
DeletePlainTagsOfItem(d, wallet_id, item_id) ==
    [d EXCEPT !.tags_plaintext = {x \in @ : ~ (x.wallet_id = wallet_id /\ x.item_id = item_id)}]

\* the DELETE of delete_tags run on both tag tables whatever the variant
DeleteTag_BothTables(d, wallet_id, item_id, tag_name) ==
    [d EXCEPT
        !.tags_encrypted =
            {x \in @ : ~ (x.wallet_id = wallet_id /\ x.item_id = item_id /\ x.name = tag_name.name)},
        !.tags_plaintext =
            {x \in @ : ~ (x.wallet_id = wallet_id /\ x.item_id = item_id /\ x.name = tag_name.name)}]

\* DELETE FROM tags_encrypted / tags_plaintext WHERE wallet_id = $1 AND item_id = $2 AND name = $3
DeleteTag(d, wallet_id, item_id, tag_name) ==
    LET table == TagTable(tag_name.variant)
    IN  [d EXCEPT ![table] =
            {x \in @ : ~ (x.wallet_id = wallet_id /\ x.item_id = item_id /\ x.name = tag_name.name)}]

\* ON DELETE CASCADE declared on tags_encrypted only
CascadeDelete_EncryptedOnly(d, gone) ==
    [d EXCEPT
        !.tags_encrypted = {x \in @ : ~ \E i \in gone : i.wallet_id = x.wallet_id /\ i.id = x.item_id}]

\* ON DELETE CASCADE of both tag tables: the tag rows that reference a deleted item go with it
CascadeDelete(d, gone) ==
    [d EXCEPT
        !.tags_encrypted = {x \in @ : ~ \E i \in gone : i.wallet_id = x.wallet_id /\ i.id = x.item_id},
        !.tags_plaintext = {x \in @ : ~ \E i \in gone : i.wallet_id = x.wallet_id /\ i.id = x.item_id}]

\* the DELETE on a schema whose foreign keys do not cascade and are not enforced
DeleteItem_NoCascade(d, wallet_id, type_, id) ==
    LET gone == {x \in d.items : x.wallet_id = wallet_id /\ x.type = type_ /\ x.name = id}
    IN  [db |-> [d EXCEPT !.items = @ \ gone], row_count |-> Cardinality(gone)]

\* DELETE FROM items WHERE wallet_id = $1 AND type = $2 AND name = $3
DeleteItem(d, wallet_id, type_, id) ==
    LET gone == SelectItem(d, wallet_id, type_, id)
    IN  [db |-> CascadeDelete([d EXCEPT !.items = @ \ gone], gone), row_count |-> Cardinality(gone)]

\* the UPDATE with the type column left out of its WHERE clause
UpdateItem_AnyType(d, wallet_id, type_, id, value) ==
    LET hit == {x \in d.items : x.wallet_id = wallet_id /\ x.name = id}
    IN  [db |-> [d EXCEPT !.items = (@ \ hit) \cup
                    {[x EXCEPT !.value = value.data, !.key = value.key] : x \in hit}],
         row_count |-> Cardinality(hit)]

\* UPDATE items SET value = $1, key = $2 WHERE wallet_id = $3 AND type = $4 AND name = $5
UpdateItem(d, wallet_id, type_, id, value) ==
    LET hit == SelectItem(d, wallet_id, type_, id)
    IN  [db |-> [d EXCEPT !.items = (@ \ hit) \cup
                    {[x EXCEPT !.value = value.data, !.key = value.key] : x \in hit}],
         row_count |-> Cardinality(hit)]

----------------------------------------------------------------------------
(* Transactions and error mapping *)

\* transaction::Transaction dropped without commit: its statements are undone.
\* Sequences are outside transactions and keep the values drawn.
Rollback(before, now) ==
    [before EXCEPT !.items_id_seq = now.items_id_seq, !.metadata_id_seq = now.metadata_id_seq]

\* tx.commit()
Commit(before, now) == now

\* From<postgres::Error> for WalletStorageError, used by `?`
FromPostgresError(code) == "IOError"

\* the match with the UNIQUE_VIOLATION arm left out
ConstraintError_UniqueUnmapped(code) ==
    IF code = INTEGRITY_CONSTRAINT_VIOLATION
    THEN "ItemAlreadyExists"
    ELSE FromPostgresError(code)

\* the match on err.code() in add and add_tags
ConstraintError(code) ==
    IF code = UNIQUE_VIOLATION \/ code = INTEGRITY_CONSTRAINT_VIOLATION
    THEN "ItemAlreadyExists"
    ELSE FromPostgresError(code)

----------------------------------------------------------------------------
(* PostgresStorage: the Record Store methods.  Each returns [db, res]; get *)
(* returns the set of records it can return (row order is the backend's).  *)

\* the `for tag in tags` loop of add: plain INSERTs, stopped by the first error
RECURSIVE InsertTags(_, _, _, _, _)
InsertTags(d, wallet_id, item_id, tags, i) ==
    IF i > Len(tags) THEN [db |-> d, code |-> NoError]
    ELSE LET r == InsertTag(d, wallet_id, item_id, tags[i])
         IN  IF r.code # NoError THEN r
             ELSE InsertTags(r.db, wallet_id, item_id, tags, i + 1)

\* the `for tag in tags` loop of add_tags: upserts, stopped by the first error
RECURSIVE UpsertTags(_, _, _, _, _)
UpsertTags(d, wallet_id, item_id, tags, i) ==
    IF i > Len(tags) THEN [db |-> d, code |-> NoError]
    ELSE LET r == UpsertTag(d, wallet_id, item_id, tags[i])
         IN  IF r.code # NoError THEN r
             ELSE UpsertTags(r.db, wallet_id, item_id, tags, i + 1)

\* the `for tag_name in tag_names` loop of delete_tags
RECURSIVE DeleteTags(_, _, _, _, _)
DeleteTags(d, wallet_id, item_id, tag_names, i) ==
    IF i > Len(tag_names) THEN d
    ELSE DeleteTags(DeleteTag(d, wallet_id, item_id, tag_names[i]), wallet_id, item_id, tag_names, i + 1)

StorageRecord(name, value, type_, tags) ==
    [name |-> name, value |-> value, type_ |-> type_, tags |-> tags]

get(d, wallet_id, type_, id, doc) ==
    LET options == RecordOptions(doc)
        rows == SelectItem(d, wallet_id, type_, id)
    IN  IF rows = {} THEN {[res |-> "ItemNotFound", record |-> None]}
        ELSE UNION {
            LET value == IF options.retrieve_value
                         THEN Some([data |-> item.value, key |-> item.key]) ELSE None
                type == IF options.retrieve_type THEN Some(type_) ELSE None
                tagss == IF options.retrieve_tags
                         THEN {Some(e \o p) :
                                 e \in Orders(SelectEncryptedTags(d, wallet_id, item.id)),
                                 p \in Orders(SelectPlainTags(d, wallet_id, item.id))}
                         ELSE {None}
            IN  {[res |-> "Ok", record |-> Some(StorageRecord(id, value, type, tags))] : tags \in tagss}
            : item \in rows}

add(d, wallet_id, type_, id, value, tags) ==
    LET ins == InsertItem(d, wallet_id, type_, id, value)
    IN  IF ins.code # NoError
        THEN [db |-> Rollback(d, ins.db), res |-> ConstraintError(ins.code)]
        ELSE LET t == IF tags # <<>> THEN InsertTags(ins.db, wallet_id, ins.item_id, tags, 1)
                      ELSE [db |-> ins.db, code |-> NoError]
             IN  IF t.code # NoError
                 THEN [db |-> Rollback(d, t.db), res |-> ConstraintError(t.code)]
                 ELSE [db |-> Commit(d, t.db), res |-> "Ok"]

\* update that takes every Ok(row_count) for success
update_IgnoresRowCount(d, wallet_id, type_, id, value) ==
    [db |-> UpdateItem(d, wallet_id, type_, id, value).db, res |-> "Ok"]

update(d, wallet_id, type_, id, value) ==
    LET u == UpdateItem(d, wallet_id, type_, id, value)
    IN  IF u.row_count = 1 THEN [db |-> u.db, res |-> "Ok"]
        ELSE IF u.row_count = 0 THEN [db |-> u.db, res |-> "ItemNotFound"]
        ELSE [db |-> u.db, res |-> "InvalidState"]

add_tags(d, wallet_id, type_, id, tags) ==
    LET rows == SelectItem(d, wallet_id, type_, id)
    IN  IF rows = {} THEN [db |-> Rollback(d, d), res |-> "ItemNotFound"]
        ELSE LET item_id == (CHOOSE x \in rows : TRUE).id
                 t == IF tags # <<>> THEN UpsertTags(d, wallet_id, item_id, tags, 1)
                      ELSE [db |-> d, code |-> NoError]
             IN  IF t.code # NoError
                 THEN [db |-> Rollback(d, t.db), res |-> ConstraintError(t.code)]
                 ELSE [db |-> Commit(d, t.db), res |-> "Ok"]

\* update_tags with its two DELETEs run on the connection, outside the transaction
update_tags_DeletesOutsideTransaction(d, wallet_id, type_, id, tags) ==
    LET rows == SelectItem(d, wallet_id, type_, id)
    IN  IF rows = {} THEN [db |-> Rollback(d, d), res |-> "ItemNotFound"]
        ELSE LET item_id == (CHOOSE x \in rows : TRUE).id
                 cleared == DeletePlainTagsOfItem(DeleteEncryptedTagsOfItem(d, wallet_id, item_id),
                                                  wallet_id, item_id)
                 t == IF tags # <<>> THEN InsertTags(cleared, wallet_id, item_id, tags, 1)
                      ELSE [db |-> cleared, code |-> NoError]
             IN  IF t.code # NoError
                 THEN [db |-> Rollback(cleared, t.db), res |-> FromPostgresError(t.code)]
                 ELSE [db |-> Commit(cleared, t.db), res |-> "Ok"]

update_tags(d, wallet_id, type_, id, tags) ==
    LET rows == SelectItem(d, wallet_id, type_, id)
    IN  IF rows = {} THEN [db |-> Rollback(d, d), res |-> "ItemNotFound"]
        ELSE LET item_id == (CHOOSE x \in rows : TRUE).id
                 cleared == DeletePlainTagsOfItem(DeleteEncryptedTagsOfItem(d, wallet_id, item_id),
                                                  wallet_id, item_id)
                 t == IF tags # <<>> THEN InsertTags(cleared, wallet_id, item_id, tags, 1)
                      ELSE [db |-> cleared, code |-> NoError]
             IN  IF t.code # NoError
                 THEN [db |-> Rollback(d, t.db), res |-> FromPostgresError(t.code)]
                 ELSE [db |-> Commit(d, t.db), res |-> "Ok"]

delete_tags(d, wallet_id, type_, id, tag_names) ==
    LET rows == SelectItem(d, wallet_id, type_, id)
    IN  IF rows = {} THEN [db |-> d, res |-> "ItemNotFound"]
        ELSE LET item_id == (CHOOSE x \in rows : TRUE).id
             IN  [db |-> Commit(d, DeleteTags(d, wallet_id, item_id, tag_names, 1)), res |-> "Ok"]

delete(d, wallet_id, type_, id) ==
    LET r == DeleteItem(d, wallet_id, type_, id)
    IN  IF r.row_count = 1 THEN [db |-> r.db, res |-> "Ok"]
        ELSE [db |-> r.db, res |-> "ItemNotFound"]

\* SQLSTATE of a statement the backend could not run (connection_failure)
CONNECTION_FAILURE == "08006"

\* add_tags when the statement of tags[k] fails in the backend: the upserts
\* before it have run, the Err arm returns and the transaction is dropped
add_tags_interrupted(d, wallet_id, type_, id, tags, k) ==
    LET rows == SelectItem(d, wallet_id, type_, id)
    IN  IF rows = {} THEN [db |-> Rollback(d, d), res |-> "ItemNotFound"]
        ELSE LET item_id == (CHOOSE x \in rows : TRUE).id
                 t == UpsertTags(d, wallet_id, item_id, SubSeq(tags, 1, k - 1), 1)
             IN  IF t.code # NoError
                 THEN [db |-> Rollback(d, t.db), res |-> ConstraintError(t.code)]
                 ELSE [db |-> Rollback(d, t.db), res |-> ConstraintError(CONNECTION_FAILURE)]

\* update_tags when the INSERT of tags[k] fails in the backend, after the
\* two DELETEs and the inserts before it
update_tags_interrupted(d, wallet_id, type_, id, tags, k) ==
    LET rows == SelectItem(d, wallet_id, type_, id)
    IN  IF rows = {} THEN [db |-> Rollback(d, d), res |-> "ItemNotFound"]
        ELSE LET item_id == (CHOOSE x \in rows : TRUE).id
                 cleared == DeletePlainTagsOfItem(DeleteEncryptedTagsOfItem(d, wallet_id, item_id),
                                                  wallet_id, item_id)
                 t == InsertTags(cleared, wallet_id, item_id, SubSeq(tags, 1, k - 1), 1)
             IN  IF t.code # NoError
                 THEN [db |-> Rollback(d, t.db), res |-> FromPostgresError(t.code)]
                 ELSE [db |-> Rollback(d, t.db), res |-> FromPostgresError(CONNECTION_FAILURE)]

\* delete_tags when the DELETE of tag_names[k] fails in the backend, after
\* the deletes before it
delete_tags_interrupted(d, wallet_id, type_, id, tag_names, k) ==
    LET rows == SelectItem(d, wallet_id, type_, id)
    IN  IF rows = {} THEN [db |-> d, res |-> "ItemNotFound"]
        ELSE LET item_id == (CHOOSE x \in rows : TRUE).id
                 t == DeleteTags(d, wallet_id, item_id, SubSeq(tag_names, 1, k - 1), 1)
             IN  [db |-> Rollback(d, t), res |-> FromPostgresError(CONNECTION_FAILURE)]

----------------------------------------------------------------------------
(* PostgresStorageType: the wallet lifecycle methods *)

\* a config or credentials argument: absent, unparseable JSON, or parsed;
\* parsed credentials come with or without the admin account and password
Configs == {"none", "bad", "ok"}
Credentialss == {"none", "bad", "noadmin", "admin"}

\* the deserialisation prefix shared by init, create, open and delete
ParseArguments(config, credentials) ==
    IF config = "bad" THEN "InvalidStructure"
    ELSE IF credentials = "bad" THEN "InvalidStructure"
    ELSE IF config = "none" THEN "ConfigError"
    ELSE IF credentials = "none" THEN "ConfigError"
    ELSE "Ok"

\* INSERT INTO metadata(wallet_id, value) VALUES($1, $2)
InsertMetadata(d, wallet_id, value) ==
    LET row == [wallet_id |-> wallet_id, id |-> d.metadata_id_seq + 1, value |-> value]
        drawn == [d EXCEPT !.metadata_id_seq = @ + 1]
    IN  IF MetadataUniqueOk(d.metadata, row)
        THEN [db |-> [drawn EXCEPT !.metadata = @ \cup {row}], code |-> NoError]
        ELSE [db |-> drawn, code |-> UNIQUE_VIOLATION]

\* _DELETE_WALLET without its DELETE FROM items
DeleteWalletStatement_ItemsLeft(d, k, wallet_id) ==
    LET table == <<"tags_plaintext", "tags_encrypted", "items", "metadata">>[k]
        gone == IF table = "items" THEN {} ELSE {x \in d[table] : x.wallet_id = wallet_id}
    IN  [db |-> [d EXCEPT ![table] = @ \ gone], row_count |-> Cardinality(gone)]

\* a statement of _DELETE_WALLET whose row count is that of the whole table
DeleteWalletStatement_CountsTable(d, k, wallet_id) ==
    LET table == <<"tags_plaintext", "tags_encrypted", "items", "metadata">>[k]
        gone == {x \in d[table] : x.wallet_id = wallet_id}
        left == [d EXCEPT ![table] = @ \ gone]
    IN  [db |-> IF table = "items" THEN CascadeDelete(left, gone) ELSE left,
         row_count |-> Cardinality(d[table])]

\* one statement of _DELETE_WALLET, by its index
DeleteWalletStatement(d, k, wallet_id) ==
    LET table == <<"tags_plaintext", "tags_encrypted", "items", "metadata">>[k]
        gone == {x \in d[table] : x.wallet_id = wallet_id}
        left == [d EXCEPT ![table] = @ \ gone]
    IN  [db |-> IF table = "items" THEN CascadeDelete(left, gone) ELSE left,
         row_count |-> Cardinality(gone)]

\* the `for sql in &_DELETE_WALLET` loop: ret is overwritten by every statement
RECURSIVE DeleteWallet(_, _, _, _)
DeleteWallet(d, wallet_id, k, ret) ==
    IF k > 4 THEN [db |-> d, res |-> ret]
    ELSE LET r == DeleteWalletStatement(d, k, wallet_id)
         IN  DeleteWallet(r.db, wallet_id, k + 1, IF r.row_count = 0 THEN "NotFound" ELSE "Ok")

delete_storage(d, id, config, credentials) ==
    LET parsed == ParseArguments(config, credentials)
    IN  IF parsed # "Ok" THEN [db |-> d, res |-> parsed]
        ELSE IF credentials = "noadmin" THEN [db |-> d, res |-> "Ok"]
        ELSE DeleteWallet(d, id, 1, "Ok")

\* create_storage without the return for missing admin credentials
create_storage_NoAdminCheck(d, id, config, credentials, metadata) ==
    LET parsed == ParseArguments(config, credentials)
    IN  IF parsed # "Ok" THEN [db |-> d, res |-> parsed]
        ELSE LET r == InsertMetadata(d, id, metadata)
             IN  [db |-> r.db,
                  res |-> IF r.code = NoError THEN "Ok"
                          ELSE IF r.code = UNIQUE_VIOLATION THEN "AlreadyExists"
                          ELSE "IOError"]

create_storage(d, id, config, credentials, metadata) ==
    LET parsed == ParseArguments(config, credentials)
    IN  IF parsed # "Ok" THEN [db |-> d, res |-> parsed]
        ELSE IF credentials = "noadmin" THEN [db |-> d, res |-> "Ok"]
        ELSE LET r == InsertMetadata(d, id, metadata)
             IN  [db |-> r.db,
                  res |-> IF r.code = NoError THEN "Ok"
                          ELSE IF r.code = UNIQUE_VIOLATION THEN "AlreadyExists"
                          ELSE "IOError"]

\* open_storage that only verifies it can connect
open_storage_NoMetadataCheck(d, id, config, credentials) ==
    ParseArguments(config, credentials)

\* SELECT wallet_id FROM metadata WHERE wallet_id = $1, then the pool is built
open_storage(d, id, config, credentials) ==
    LET parsed == ParseArguments(config, credentials)
    IN  IF parsed # "Ok" THEN parsed
        ELSE IF {x \in d.metadata : x.wallet_id = id} = {} THEN "NotFound"
        ELSE "Ok"

\* init_storage: CREATE DATABASE and the CREATE ... IF NOT EXISTS statements
\* of _CREATE_SCHEMA change no row of an existing table
init_storage(d, config, credentials) ==
    LET parsed == ParseArguments(config, credentials)
    IN  IF parsed # "Ok" THEN [db |-> d, res |-> parsed]
        ELSE IF credentials = "noadmin" THEN [db |-> d, res |-> "Ok"]
        ELSE [db |-> d, res |-> "Ok"]

\* SELECT value FROM metadata WHERE wallet_id = $1
SelectMetadata(d, wallet_id) ==
    {x \in d.metadata : x.wallet_id = wallet_id}

\* get_storage_metadata: the value of the first row the backend returns
get_storage_metadata(d, wallet_id) ==
    IF SelectMetadata(d, wallet_id) = {} THEN {[res |-> "ItemNotFound", value |-> None]}
    ELSE {[res |-> "Ok", value |-> Some(x.value)] : x \in SelectMetadata(d, wallet_id)}

\* an UPDATE of metadata that matches the rows and writes nothing
UpdateMetadata_KeepsValue(d, wallet_id, value) ==
    [db |-> d, code |-> NoError]

\* an INSERT ... ON CONFLICT DO UPDATE in place of the UPDATE of metadata
UpdateMetadata_Upsert(d, wallet_id, value) ==
    LET hit == {x \in d.metadata : x.wallet_id = wallet_id}
    IN  IF hit = {} THEN InsertMetadata(d, wallet_id, value)
        ELSE [db |-> [d EXCEPT !.metadata = (@ \ hit) \cup {[x EXCEPT !.value = value] : x \in hit}],
              code |-> NoError]

\* UPDATE metadata SET value = $1 WHERE wallet_id = $2, under ux_metadata_values
UpdateMetadata(d, wallet_id, value) ==
    LET hit == SelectMetadata(d, wallet_id)
    IN  IF Cardinality(hit) > 1 THEN [db |-> d, code |-> UNIQUE_VIOLATION]
        ELSE [db |-> [d EXCEPT !.metadata = (@ \ hit) \cup {[x EXCEPT !.value = value] : x \in hit}],
              code |-> NoError]

set_storage_metadata(d, wallet_id, metadata) ==
    LET r == UpdateMetadata(d, wallet_id, metadata)
    IN  [db |-> r.db, res |-> IF r.code = NoError THEN "Ok" ELSE "IOError"]

----------------------------------------------------------------------------
(* Search and iteration: SearchOptions, the queries, the iterator *)

\* the options argument of search: absent, or a document
SearchOptionDocs ==
    { {},
      {<<"retrieveTotalCount", TRUE>>},
      {<<"retrieveRecords", FALSE>>, <<"retrieveTotalCount", TRUE>>},
      {<<"retrieveRecords", FALSE>>},
      {<<"retrieveRecords", FALSE>>, <<"retrieveTags", TRUE>>, <<"retrieveTotalCount", TRUE>>},
      {<<"retrieveType", TRUE>>, <<"retrieveValue", FALSE>>, <<"retrieveTotalCount", TRUE>>},
      {<<"retrieveTags", TRUE>>},
      {<<"retrieveTags", TRUE>>, <<"retrieveTotalCount", TRUE>>} }
SearchOptionss == {None} \cup {Some(doc) : doc \in SearchOptionDocs}

\* serde defaults of SearchOptions; an absent argument gives SearchOptions::default()
SearchOptions(options) ==
    IF options = None
    THEN [retrieve_records |-> TRUE, retrieve_total_count |-> FALSE,
          retrieve_type |-> FALSE, retrieve_value |-> TRUE, retrieve_tags |-> FALSE]
    ELSE [retrieve_records     |-> Field(options[1], "retrieveRecords", default_true),
          retrieve_total_count |-> Field(options[1], "retrieveTotalCount", default_false),
          retrieve_type        |-> Field(options[1], "retrieveType", default_false),
          retrieve_value       |-> Field(options[1], "retrieveValue", default_true),
          retrieve_tags        |-> Field(options[1], "retrieveTags", default_false)]

\* language::Operator: the empty conjunction "{}" and an equality on one tag
AndOfNothing == [op |-> "And", tag |-> None]
Eq(tag) == [op |-> "Eq", tag |-> Some(tag)]
Queries == {AndOfNothing, Eq(Encrypted(1, 1)), Eq(PlainText(1, 1))}

\* the predicate of a query on an item row: the tag sub-select is keyed by
\* the item id
Matches(d, x, query) ==
    \/ query.op = "And"
    \/ /\ query.op = "Eq"
       /\ \E t \in d[TagTable(query.tag[1].variant)] :
             t.item_id = x.id /\ t.name = query.tag[1].name /\ t.value = query.tag[1].value

\* query::wql_to_sql(&type_, query, options): the statement is made from the
\* type and the predicate, which is all the compiler is given
wql_to_sql(type_, query) == [select |-> "rows", type_ |-> type_, query |-> query]
\* query::wql_to_sql_count(&type_, query)
wql_to_sql_count(type_, query) == [select |-> "count", type_ |-> type_, query |-> query]

\* the rows a compiled statement selects
QueryRows(d, statement) ==
    {x \in d.items : x.type = statement.type_ /\ Matches(d, x, statement.query)}

\* SELECT id, name, value, key, type FROM items WHERE wallet_id = $1
SelectAllItems(d, wallet_id) ==
    {x \in d.items : x.wallet_id = wallet_id}

\* _PLAIN_TAGS_QUERY: SELECT name, value from tags_plaintext where item_id = $1
PlainTagsQuery(d, item_id) ==
    {PlainText(x.name, x.value) : x \in {y \in d.tags_plaintext : y.item_id = item_id}}
\* _ENCRYPTED_TAGS_QUERY: SELECT name, value from tags_encrypted where item_id = $1
EncryptedTagsQuery(d, item_id) ==
    {Encrypted(x.name, x.value) : x \in {y \in d.tags_encrypted : y.item_id = item_id}}

\* TagRetriever::retrieve: the plaintext tags, then the encrypted ones
retrieve(d, id) ==
    {p \o e : p \in Orders(PlainTagsQuery(d, id)), e \in Orders(EncryptedTagsQuery(d, id))}

\* r2d2 pool of a handle: max_size(2)
POOL_MAX_SIZE == 2
\* pool.get().unwrap() with `leased` connections already out: a connection,
\* or the abort of the call when the pool gives none
PoolGet(leased) == IF leased < POOL_MAX_SIZE THEN "Ok" ELSE "Panic"

\* PostgresStorageIterator::new: with a statement the query runs here and
\* its rows are held, in the order the backend delivers them
PostgresStorageIterator_new(result, options, tag_retriever, total_count) ==
    IF result = None
    THEN {[rows |-> None, tag_retriever |-> tag_retriever, options |-> options,
           total_count |-> total_count, iter_count |-> 0]}
    ELSE {[rows |-> Some(rows), tag_retriever |-> tag_retriever, options |-> options,
           total_count |-> total_count, iter_count |-> 0] : rows \in Orders(result[1])}

\* the pooled connections an iterator owns: the one under its statement and
\* rows, and the one under its tag retriever
Leases(it) ==
    (IF it.rows # None THEN 1 ELSE 0) + (IF it.tag_retriever THEN 1 ELSE 0)

\* an advance that steps over the row after the one it returns
next_SkipsRow(d, it) ==
    IF it.rows = None THEN {[it |-> it, res |-> "Ok", record |-> None]}
    ELSE IF it.iter_count >= Len(it.rows[1]) THEN {[it |-> it, res |-> "Ok", record |-> None]}
    ELSE LET row == it.rows[1][it.iter_count + 1]
             advanced == [it EXCEPT !.iter_count = @ + 2]
             value == IF it.options.retrieve_value
                      THEN Some([data |-> row.value, key |-> row.key]) ELSE None
             type_ == IF it.options.retrieve_type THEN Some(row.type) ELSE None
         IN  IF it.options.retrieve_tags
             THEN IF it.tag_retriever
                  THEN {[it |-> advanced, res |-> "Ok",
                         record |-> Some(StorageRecord(row.name, value, type_, Some(tags)))] :
                            tags \in retrieve(d, row.id)}
                  ELSE {[it |-> advanced, res |-> "InvalidState", record |-> None]}
             ELSE {[it |-> advanced, res |-> "Ok",
                    record |-> Some(StorageRecord(row.name, value, type_, None))]}

\* an advance that starts over once it has signalled exhaustion
next_Restarts(d, it) ==
    IF it.rows = None THEN {[it |-> it, res |-> "Ok", record |-> None]}
    ELSE IF it.iter_count >= Len(it.rows[1])
    THEN {[it |-> [it EXCEPT !.iter_count = 0], res |-> "Ok", record |-> None]}
    ELSE LET row == it.rows[1][it.iter_count + 1]
             advanced == [it EXCEPT !.iter_count = @ + 1]
             value == IF it.options.retrieve_value
                      THEN Some([data |-> row.value, key |-> row.key]) ELSE None
             type_ == IF it.options.retrieve_type THEN Some(row.type) ELSE None
         IN  IF it.options.retrieve_tags
             THEN IF it.tag_retriever
                  THEN {[it |-> advanced, res |-> "Ok",
                         record |-> Some(StorageRecord(row.name, value, type_, Some(tags)))] :
                            tags \in retrieve(d, row.id)}
                  ELSE {[it |-> advanced, res |-> "InvalidState", record |-> None]}
             ELSE {[it |-> advanced, res |-> "Ok",
                    record |-> Some(StorageRecord(row.name, value, type_, None))]}

\* an advance that yields a record although no rows were requested
next_IgnoresNoRows(d, it) ==
    IF it.rows = None
    THEN {[it |-> it, res |-> "Ok", record |-> Some(StorageRecord(1, None, None, None))]}
    ELSE IF it.iter_count >= Len(it.rows[1]) THEN {[it |-> it, res |-> "Ok", record |-> None]}
    ELSE LET row == it.rows[1][it.iter_count + 1]
             advanced == [it EXCEPT !.iter_count = @ + 1]
             value == IF it.options.retrieve_value
                      THEN Some([data |-> row.value, key |-> row.key]) ELSE None
             type_ == IF it.options.retrieve_type THEN Some(row.type) ELSE None
         IN  IF it.options.retrieve_tags
             THEN IF it.tag_retriever
                  THEN {[it |-> advanced, res |-> "Ok",
                         record |-> Some(StorageRecord(row.name, value, type_, Some(tags)))] :
                            tags \in retrieve(d, row.id)}
                  ELSE {[it |-> advanced, res |-> "InvalidState", record |-> None]}
             ELSE {[it |-> advanced, res |-> "Ok",
                    record |-> Some(StorageRecord(row.name, value, type_, None))]}

\* PostgresStorageIterator::next: rows.iter().nth(iter_count)
next(d, it) ==
    IF it.rows = None THEN {[it |-> it, res |-> "Ok", record |-> None]}
    ELSE IF it.iter_count >= Len(it.rows[1]) THEN {[it |-> it, res |-> "Ok", record |-> None]}
    ELSE LET row == it.rows[1][it.iter_count + 1]
             advanced == [it EXCEPT !.iter_count = @ + 1]
             value == IF it.options.retrieve_value
                      THEN Some([data |-> row.value, key |-> row.key]) ELSE None
             type_ == IF it.options.retrieve_type THEN Some(row.type) ELSE None
         IN  IF it.options.retrieve_tags
             THEN IF it.tag_retriever
                  THEN {[it |-> advanced, res |-> "Ok",
                         record |-> Some(StorageRecord(row.name, value, type_, Some(tags)))] :
                            tags \in retrieve(d, row.id)}
                  ELSE {[it |-> advanced, res |-> "InvalidState", record |-> None]}
             ELSE {[it |-> advanced, res |-> "Ok",
                    record |-> Some(StorageRecord(row.name, value, type_, None))]}

\* a get_total_count that reports the rows not yet consumed
get_total_count_Remaining(it) ==
    [res |-> "Ok",
     count |-> IF it.total_count = None THEN None ELSE Some(it.total_count[1] - it.iter_count)]

\* PostgresStorageIterator::get_total_count
get_total_count(it) == [res |-> "Ok", count |-> it.total_count]

\* get_all on a handle with no other outstanding lease: the statement and
\* the tag retriever each lease a connection
get_all(d, wallet_id) ==
    IF PoolGet(0) # "Ok" \/ PoolGet(1) # "Ok" THEN {[res |-> "Panic", it |-> None]}
    ELSE {[res |-> "Ok", it |-> Some(it)] :
            it \in PostgresStorageIterator_new(Some(SelectAllItems(d, wallet_id)),
                      [retrieve_type |-> TRUE, retrieve_value |-> TRUE, retrieve_tags |-> TRUE],
                      TRUE, None)}

\* a search whose count statement has lost its type filter
search_CountsAllTypes(d, wallet_id, type_, query, options) ==
    LET search_options == SearchOptions(options)
        total_count == IF search_options.retrieve_total_count
                       THEN Some(Cardinality({x \in d.items : Matches(d, x, query)}))
                       ELSE None
        fetch_options == [retrieve_type  |-> search_options.retrieve_type,
                          retrieve_value |-> search_options.retrieve_value,
                          retrieve_tags  |-> search_options.retrieve_tags]
    IN  IF PoolGet(0) # "Ok" THEN {[res |-> "Panic", it |-> None]}
        ELSE IF search_options.retrieve_records
        THEN IF PoolGet(1) # "Ok" THEN {[res |-> "Panic", it |-> None]}
             ELSE IF fetch_options.retrieve_tags /\ PoolGet(2) # "Ok"
             THEN {[res |-> "Panic", it |-> None]}
             ELSE {[res |-> "Ok", it |-> Some(it)] :
                     it \in PostgresStorageIterator_new(Some(QueryRows(d, wql_to_sql(type_, query))),
                               fetch_options, fetch_options.retrieve_tags, total_count)}
        ELSE {[res |-> "Ok", it |-> Some(it)] :
                it \in PostgresStorageIterator_new(None, RecordOptions({}), FALSE, total_count)}

\* search on a handle with no other outstanding lease.  `conn` is leased
\* for the whole call; the statement and the tag retriever lease one more
\* connection each
search(d, wallet_id, type_, query, options) ==
    LET search_options == SearchOptions(options)
        total_count == IF search_options.retrieve_total_count
                       THEN Some(Cardinality(QueryRows(d, wql_to_sql_count(type_, query))))
                       ELSE None
        fetch_options == [retrieve_type  |-> search_options.retrieve_type,
                          retrieve_value |-> search_options.retrieve_value,
                          retrieve_tags  |-> search_options.retrieve_tags]
    IN  IF PoolGet(0) # "Ok" THEN {[res |-> "Panic", it |-> None]}
        ELSE IF search_options.retrieve_records
        THEN IF PoolGet(1) # "Ok" THEN {[res |-> "Panic", it |-> None]}
             ELSE IF fetch_options.retrieve_tags /\ PoolGet(2) # "Ok"
             THEN {[res |-> "Panic", it |-> None]}
             ELSE {[res |-> "Ok", it |-> Some(it)] :
                     it \in PostgresStorageIterator_new(Some(QueryRows(d, wql_to_sql(type_, query))),
                               fetch_options, fetch_options.retrieve_tags, total_count)}
        ELSE {[res |-> "Ok", it |-> Some(it)] :
                it \in PostgresStorageIterator_new(None, RecordOptions({}), FALSE, total_count)}

----------------------------------------------------------------------------
(* The state machine: the Record Store on one open wallet.  The state is   *)
(* the database and the open handles; what a call returns is the `res` of  *)
(* its operator.                                                           *)

\* what the tests' _storage() returns: wallet "w1" created, then opened
Init ==
    /\ db = create_storage(EmptyDb, "w1", "ok", "admin", 1).db
    /\ handles = IF open_storage(db, "w1", "ok", "admin") = "Ok" THEN {"w1"} ELSE {}
    /\ calls = <<>>

Get ==
    \E h \in handles, type_ \in Types, id \in Names, doc \in OptionDocs :
        \E r \in get(db, h, type_, id, doc) :
            UNCHANGED vars

Add ==
    \E h \in handles, type_ \in Types, id \in Names, value \in EncryptedValues, tags \in TagLists :
        /\ db.items_id_seq < MaxItemId
        /\ db' = add(db, h, type_, id, value, tags).db
        /\ UNCHANGED <<handles, calls>>

Update ==
    \E h \in handles, type_ \in Types, id \in Names, value \in EncryptedValues :
        /\ db' = update(db, h, type_, id, value).db
        /\ UNCHANGED <<handles, calls>>

AddTags ==
    \E h \in handles, type_ \in Types, id \in Names, tags \in TagLists :
        /\ db' = add_tags(db, h, type_, id, tags).db
        /\ UNCHANGED <<handles, calls>>

UpdateTags ==
    \E h \in handles, type_ \in Types, id \in Names, tags \in TagLists :
        /\ db' = update_tags(db, h, type_, id, tags).db
        /\ UNCHANGED <<handles, calls>>

DeleteTagsOp ==
    \E h \in handles, type_ \in Types, id \in Names, tag_names \in TagNameLists :
        /\ db' = delete_tags(db, h, type_, id, tag_names).db
        /\ UNCHANGED <<handles, calls>>

Delete ==
    \E h \in handles, type_ \in Types, id \in Names :
        /\ db' = delete(db, h, type_, id).db
        /\ UNCHANGED <<handles, calls>>

\* delete_storage as the tests call it: parsed config, admin credentials
DeleteStorage ==
    \E id \in Wallets :
        /\ db' = delete_storage(db, id, "ok", "admin").db
        /\ UNCHANGED <<handles, calls>>

Next ==
    \/ Get
    \/ Add
    \/ Update
    \/ AddTags
    \/ UpdateTags
    \/ DeleteTagsOp
    \/ Delete
    \/ DeleteStorage

Spec == Init /\ [][Next]_vars

----------------------------------------------------------------------------
(* The state machine of the wallet lifecycle: init, create, open and       *)
(* delete on two wallet ids with every kind of config and credentials,     *)
(* the metadata calls, and add and delete of one item per wallet through   *)
(* the handles.                                                            *)

\* the tag lists the lifecycle runs add items with
LifeTagLists == {<<>>, <<Encrypted(1, 1), PlainText(1, 1)>>}

\* a database server with the schema and no wallet
InitLife ==
    /\ db = init_storage(EmptyDb, "ok", "admin").db
    /\ handles = {}
    /\ calls = <<>>

InitStorage ==
    \E config \in Configs, credentials \in Credentialss :
        /\ db' = init_storage(db, config, credentials).db
        /\ UNCHANGED <<handles, calls>>

CreateStorage ==
    \E id \in Wallets, config \in Configs, credentials \in Credentialss, metadata \in Metadatas :
        /\ db.metadata_id_seq < MaxMetaId
        /\ db' = create_storage(db, id, config, credentials, metadata).db
        /\ UNCHANGED <<handles, calls>>

OpenStorage ==
    \E id \in Wallets, config \in Configs, credentials \in Credentialss :
        /\ handles' = IF open_storage(db, id, config, credentials) = "Ok"
                      THEN handles \cup {id} ELSE handles
        /\ UNCHANGED <<db, calls>>

DeleteStorageLife ==
    \E id \in Wallets, config \in Configs, credentials \in Credentialss :
        /\ db' = delete_storage(db, id, config, credentials).db
        /\ UNCHANGED <<handles, calls>>

GetStorageMetadata ==
    \E h \in handles :
        \E r \in get_storage_metadata(db, h) :
            UNCHANGED vars

SetStorageMetadata ==
    \E h \in handles, metadata \in Metadatas :
        /\ db' = set_storage_metadata(db, h, metadata).db
        /\ UNCHANGED <<handles, calls>>

AddLife ==
    \E h \in handles, tags \in LifeTagLists :
        /\ db.items_id_seq < MaxItemId
        /\ db' = add(db, h, 1, 1, [data |-> 1, key |-> 2], tags).db
        /\ UNCHANGED <<handles, calls>>

DeleteLife ==
    \E h \in handles :
        /\ db' = delete(db, h, 1, 1).db
        /\ UNCHANGED <<handles, calls>>

NextLife ==
    \/ InitStorage
    \/ CreateStorage
    \/ OpenStorage
    \/ DeleteStorageLife
    \/ GetStorageMetadata
    \/ SetStorageMetadata
    \/ AddLife
    \/ DeleteLife

SpecLife == InitLife /\ [][NextLife]_vars

----------------------------------------------------------------------------
(* A get that runs while another caller writes.  get issues its three      *)
(* SELECTs on a pooled connection outside any transaction, so each sees    *)
(* what is committed when it runs; the writes of the other caller are one  *)
(* transaction (or one statement) and become visible together at commit.   *)
(* The reader addresses type 1, name 1 and asks for the tags; `seen`       *)
(* records the complete tag set of that item (None while it does not       *)
(* exist) when the get started and after the write committed during it.    *)

\* the complete tag set of (type, name) as an Option
WholeTagSet(d, wallet_id, type_, id) ==
    IF SelectItem(d, wallet_id, type_, id) = {} THEN None
    ELSE Some(UNION {SelectEncryptedTags(d, wallet_id, x.id) \cup SelectPlainTags(d, wallet_id, x.id) :
                        x \in SelectItem(d, wallet_id, type_, id)})

InitRead ==
    /\ db = create_storage(EmptyDb, "w1", "ok", "admin", 1).db
    /\ handles = IF open_storage(db, "w1", "ok", "admin") = "Ok" THEN {"w1"} ELSE {}
    /\ calls = [reader |-> [pc |-> "idle"]]

\* a write of the other caller commits; during a get at most one does
Committed(h, after) ==
    /\ db' = after
    /\ IF calls.reader.pc \in {"item", "encrypted"}
       THEN /\ calls.reader.writes = 0
            /\ calls' = [calls EXCEPT !.reader.writes = 1,
                                      !.reader.seen = @ \cup {WholeTagSet(after, h, 1, 1)}]
       ELSE UNCHANGED calls
    /\ UNCHANGED handles

\* lines 411-423: the SELECT on items
GetSelectItem ==
    \E h \in handles :
        /\ calls.reader.pc = "idle"
        /\ IF SelectItem(db, h, 1, 1) = {}
           THEN calls' = [calls EXCEPT !.reader = [pc |-> "done", res |-> "ItemNotFound"]]
           ELSE \E item \in SelectItem(db, h, 1, 1) :
                   calls' = [calls EXCEPT !.reader =
                       [pc |-> "item", h |-> h, item |-> item, writes |-> 0,
                        seen |-> {WholeTagSet(db, h, 1, 1)}]]
        /\ UNCHANGED <<db, handles>>

\* lines 431-439: the SELECT on tags_encrypted
GetSelectEncryptedTags ==
    /\ calls.reader.pc = "item"
    /\ \E e \in Orders(SelectEncryptedTags(db, calls.reader.h, calls.reader.item.id)) :
          calls' = [calls EXCEPT !.reader =
              [pc |-> "encrypted", h |-> @.h, item |-> @.item, writes |-> @.writes,
               seen |-> @.seen, tags |-> e]]
    /\ UNCHANGED <<db, handles>>

\* lines 443-457: the SELECT on tags_plaintext and the record returned
GetSelectPlainTags ==
    /\ calls.reader.pc = "encrypted"
    /\ \E p \in Orders(SelectPlainTags(db, calls.reader.h, calls.reader.item.id)) :
          calls' = [calls EXCEPT !.reader =
              [pc |-> "done", res |-> "Ok", seen |-> @.seen, writes |-> @.writes,
               record |-> StorageRecord(1, None, None, Some(@.tags \o p))]]
    /\ UNCHANGED <<db, handles>>

\* the caller takes the result and may call get again
GetReturn ==
    /\ calls.reader.pc = "done"
    /\ calls' = [calls EXCEPT !.reader = [pc |-> "idle"]]
    /\ UNCHANGED <<db, handles>>

WriterAdd ==
    \E h \in handles, value \in EncryptedValues, tags \in TagLists :
        /\ db.items_id_seq < MaxItemId
        /\ Committed(h, add(db, h, 1, 1, value, tags).db)

WriterAddTags ==
    \E h \in handles, tags \in TagLists :
        Committed(h, add_tags(db, h, 1, 1, tags).db)

WriterUpdateTags ==
    \E h \in handles, tags \in TagLists :
        Committed(h, update_tags(db, h, 1, 1, tags).db)

WriterDeleteTags ==
    \E h \in handles, tag_names \in TagNameLists :
        Committed(h, delete_tags(db, h, 1, 1, tag_names).db)

WriterDelete ==
    \E h \in handles :
        Committed(h, delete(db, h, 1, 1).db)

NextRead ==
    \/ GetSelectItem
    \/ GetSelectEncryptedTags
    \/ GetSelectPlainTags
    \/ GetReturn
    \/ WriterAdd
    \/ WriterAddTags
    \/ WriterUpdateTags
    \/ WriterDeleteTags
    \/ WriterDelete

SpecRead == InitRead /\ [][NextRead]_vars

----------------------------------------------------------------------------
(* Two callers that add the same (type 1, name 1) to the same wallet at    *)
(* the same time.  Each add is a transaction: what it has inserted is in   *)
(* `pending` until tx.commit() and is undone when the transaction is       *)
(* dropped.  An INSERT that would violate a unique index against a row     *)
(* another transaction has inserted and not yet committed waits for that   *)
(* transaction to end; against a committed row it fails at once.           *)

Callers == {"a", "b"}

NoRows == [items |-> {}, tags_encrypted |-> {}, tags_plaintext |-> {}]

\* the database as a transaction sees it: the committed rows and its own
View(d, pending) ==
    [d EXCEPT !.items = @ \cup pending.items,
              !.tags_encrypted = @ \cup pending.tags_encrypted,
              !.tags_plaintext = @ \cup pending.tags_plaintext]

\* the rows a transaction has inserted, from its view
Pending(d, view) ==
    [items |-> view.items \ d.items,
     tags_encrypted |-> view.tags_encrypted \ d.tags_encrypted,
     tags_plaintext |-> view.tags_plaintext \ d.tags_plaintext]

InitAdd2 ==
    /\ db = create_storage(EmptyDb, "w1", "ok", "admin", 1).db
    /\ handles = IF open_storage(db, "w1", "ok", "admin") = "Ok" THEN {"w1"} ELSE {}
    /\ calls = [c \in Callers |-> [pc |-> "idle"]]

\* lines 489-492: add is called and opens its transaction
AddBegin ==
    \E c \in Callers, h \in handles, value \in EncryptedValues, tags \in TagLists :
        /\ calls[c].pc = "idle"
        /\ calls' = [calls EXCEPT ![c] =
              [pc |-> "begun", h |-> h, value |-> value, tags |-> tags, pending |-> NoRows]]
        /\ UNCHANGED <<db, handles>>

\* lines 493-517: the INSERT into items and the match on its result
AddInsertItem ==
    \E c \in Callers :
        /\ calls[c].pc = "begun"
        /\ db.items_id_seq < MaxItemId
        /\ LET call == calls[c]
               ins == InsertItem(db, call.h, 1, 1, call.value)
               row == [wallet_id |-> call.h, id |-> db.items_id_seq + 1, type |-> 1, name |-> 1,
                       value |-> call.value.data, key |-> call.value.key]
           IN  /\ \A o \in Callers \ {c} :
                     calls[o].pc = "inserted" => ItemsUniqueOk(calls[o].pending.items, row)
               /\ db' = [db EXCEPT !.items_id_seq = ins.db.items_id_seq]
               /\ calls' = [calls EXCEPT ![c] =
                     IF ins.code # NoError
                     THEN [pc |-> "done", h |-> call.h, value |-> call.value, tags |-> call.tags,
                           res |-> ConstraintError(ins.code)]
                     ELSE [pc |-> "inserted", h |-> call.h, value |-> call.value, tags |-> call.tags,
                           item_id |-> ins.item_id, pending |-> Pending(db, ins.db)]]
        /\ UNCHANGED handles

\* lines 521-559: the tag INSERTs, then tx.commit() or the drop of the transaction
AddInsertTagsAndCommit ==
    \E c \in Callers :
        /\ calls[c].pc = "inserted"
        /\ LET call == calls[c]
               view == View(db, call.pending)
               t == IF call.tags # <<>> THEN InsertTags(view, call.h, call.item_id, call.tags, 1)
                    ELSE [db |-> view, code |-> NoError]
           IN  /\ db' = IF t.code # NoError THEN Rollback(db, db) ELSE Commit(db, t.db)
               /\ calls' = [calls EXCEPT ![c] =
                     [pc |-> "done", h |-> call.h, value |-> call.value, tags |-> call.tags,
                      res |-> IF t.code # NoError THEN ConstraintError(t.code) ELSE "Ok"]]
        /\ UNCHANGED handles

NextAdd2 ==
    \/ AddBegin
    \/ AddInsertItem
    \/ AddInsertTagsAndCommit

SpecAdd2 == InitAdd2 /\ [][NextAdd2]_vars

----------------------------------------------------------------------------
(* The state machine of search and iteration: two open wallets, items      *)
(* added through their handles, and one iterator at a time, made by        *)
(* get_all or search and advanced row by row while items of its wallet     *)
(* are retagged and deleted.  `calls` holds the iterator, the handle it came from,     *)
(* the total count it had when it was made and whether an advance has      *)
(* signalled exhaustion.                                                   *)

\* the tag lists the iteration runs add and retag items with
IterTagLists == {<<>>, <<Encrypted(1, 1), PlainText(1, 1)>>}

\* the options the iteration runs call search with
IterSearchOptionss ==
    {None,
     Some({<<"retrieveTotalCount", TRUE>>}),
     Some({<<"retrieveRecords", FALSE>>, <<"retrieveTotalCount", TRUE>>}),
     Some({<<"retrieveTags", TRUE>>})}

NoIterator == [it |-> None, source |-> "none", h |-> "w1", total_at_call |-> None, ended |-> FALSE]

InitIter ==
    /\ db = create_storage(create_storage(EmptyDb, "w1", "ok", "admin", 1).db,
                           "w2", "ok", "admin", 2).db
    /\ handles = {id \in Wallets : open_storage(db, id, "ok", "admin") = "Ok"}
    /\ calls = NoIterator

IterAdd ==
    \E h \in handles, type_ \in Types, tags \in IterTagLists :
        /\ db.items_id_seq < MaxItemId
        /\ calls.it = None
        /\ db' = add(db, h, type_, 1, [data |-> 1, key |-> 2], tags).db
        /\ UNCHANGED <<handles, calls>>

\* a write through another handle of the iterator's wallet while it is live
IterUpdateTags ==
    \E h \in {calls.h} \cap handles, tags \in IterTagLists :
        /\ calls.it # None
        /\ db' = update_tags(db, h, 1, 1, tags).db
        /\ UNCHANGED <<handles, calls>>

IterDelete ==
    \E h \in {calls.h} \cap handles, type_ \in Types :
        /\ calls.it # None
        /\ db' = delete(db, h, type_, 1).db
        /\ UNCHANGED <<handles, calls>>

GetAll ==
    \E h \in handles :
        \E r \in get_all(db, h) :
            /\ calls.it = None
            /\ calls' = IF r.res = "Ok"
                        THEN [it |-> r.it, source |-> "get_all", h |-> h,
                              total_at_call |-> r.it[1].total_count, ended |-> FALSE]
                        ELSE calls
            /\ UNCHANGED <<db, handles>>

Search ==
    \E h \in handles, type_ \in Types, query \in Queries, options \in IterSearchOptionss :
        \E r \in search(db, h, type_, query, options) :
            /\ calls.it = None
            /\ calls' = IF r.res = "Ok"
                        THEN [it |-> r.it, source |-> "search", h |-> h,
                              total_at_call |-> r.it[1].total_count, ended |-> FALSE]
                        ELSE calls
            /\ UNCHANGED <<db, handles>>

IterNext ==
    /\ calls.it # None
    /\ \E r \in next(db, calls.it[1]) :
        /\ calls' = [calls EXCEPT !.it = Some(r.it),
                                  !.ended = @ \/ (r.res = "Ok" /\ r.record = None)]
        /\ UNCHANGED <<db, handles>>

IterGetTotalCount ==
    /\ calls.it # None
    /\ get_total_count(calls.it[1]).res = "Ok"
    /\ UNCHANGED vars

\* the iterator is dropped
IterRelease ==
    /\ calls.it # None
    /\ calls' = NoIterator
    /\ UNCHANGED <<db, handles>>

NextIter ==
    \/ IterAdd
    \/ IterUpdateTags
    \/ IterDelete
    \/ GetAll
    \/ Search
    \/ IterNext
    \/ IterGetTotalCount
    \/ IterRelease

SpecIter == InitIter /\ [][NextIter]_vars

----------------------------------------------------------------------------
(* The state machine of one handle's connection pool: every Record Store   *)
(* operation as the lease of its connection followed by its body and       *)
(* return, the iterators with the connections they own, and delete_storage *)
(* (which connects on its own, outside the pool).  calls.pc is the         *)
(* operation between its lease and its return, calls.leased the number of  *)
(* connections out of the pool, calls.it the live iterator.                *)

\* the operations that open with `let conn = pool.get().unwrap()`
RecordStoreOps ==
    {"get", "add", "update", "add_tags", "update_tags", "delete_tags", "delete",
     "get_storage_metadata", "set_storage_metadata", "search"}

\* the tag lists and tag names the pool runs call with
PoolTagLists == {<<Encrypted(1, 1), PlainText(1, 1)>>}
PoolTagNameLists == {<<OfEncrypted(1)>>}

InitPool ==
    /\ db = create_storage(EmptyDb, "w1", "ok", "admin", 1).db
    /\ handles = IF open_storage(db, "w1", "ok", "admin") = "Ok" THEN {"w1"} ELSE {}
    /\ calls = [pc |-> "idle", leased |-> 0, it |-> None]

\* a return that keeps `conn` out of the pool
Returned_KeepsConnection == [calls EXCEPT !.pc = "idle"]

\* the end of the scope of `conn`: the connection goes back to the pool
Returned == [calls EXCEPT !.pc = "idle", !.leased = @ - 1]

\* pool.get().unwrap() at the head of an operation; with no connection
\* left the call aborts and nothing of it remains
PoolCall ==
    \E op \in RecordStoreOps :
        /\ calls.pc = "idle"
        /\ op = "search" => calls.it = None
        /\ calls' = IF PoolGet(calls.leased) = "Ok"
                    THEN [calls EXCEPT !.pc = op, !.leased = @ + 1]
                    ELSE calls
        /\ UNCHANGED <<db, handles>>

PoolGetReturn ==
    \E h \in handles, type_ \in Types, id \in Names, doc \in OptionDocs :
        \E r \in get(db, h, type_, id, doc) :
            /\ calls.pc = "get"
            /\ calls' = Returned
            /\ UNCHANGED <<db, handles>>

PoolAddReturn ==
    \E h \in handles, type_ \in Types, tags \in PoolTagLists :
        /\ calls.pc = "add"
        /\ db.items_id_seq < MaxItemId
        /\ db' = add(db, h, type_, 1, [data |-> 1, key |-> 2], tags).db
        /\ calls' = Returned
        /\ UNCHANGED handles

PoolUpdateReturn ==
    \E h \in handles :
        /\ calls.pc = "update"
        /\ db' = update(db, h, 1, 1, [data |-> 2, key |-> 2]).db
        /\ calls' = Returned
        /\ UNCHANGED handles

PoolAddTagsReturn ==
    \E h \in handles, tags \in PoolTagLists :
        /\ calls.pc = "add_tags"
        /\ db' = add_tags(db, h, 1, 1, tags).db
        /\ calls' = Returned
        /\ UNCHANGED handles

PoolUpdateTagsReturn ==
    \E h \in handles, tags \in PoolTagLists :
        /\ calls.pc = "update_tags"
        /\ db' = update_tags(db, h, 1, 1, tags).db
        /\ calls' = Returned
        /\ UNCHANGED handles

PoolDeleteTagsReturn ==
    \E h \in handles, tag_names \in PoolTagNameLists :
        /\ calls.pc = "delete_tags"
        /\ db' = delete_tags(db, h, 1, 1, tag_names).db
        /\ calls' = Returned
        /\ UNCHANGED handles

PoolDeleteReturn ==
    \E h \in handles, type_ \in Types :
        /\ calls.pc = "delete"
        /\ db' = delete(db, h, type_, 1).db
        /\ calls' = Returned
        /\ UNCHANGED handles

PoolGetStorageMetadataReturn ==
    \E h \in handles :
        \E r \in get_storage_metadata(db, h) :
            /\ calls.pc = "get_storage_metadata"
            /\ calls' = Returned
            /\ UNCHANGED <<db, handles>>

PoolSetStorageMetadataReturn ==
    \E h \in handles, metadata \in {2} :
        /\ calls.pc = "set_storage_metadata"
        /\ db' = set_storage_metadata(db, h, metadata).db
        /\ calls' = Returned
        /\ UNCHANGED handles

\* the rest of search after `conn`: the iterator takes its connections
\* with it, `conn` goes back; an abort unwinds and gives back them all
PoolSearchReturn ==
    \E h \in handles, type_ \in Types, query \in Queries, options \in IterSearchOptionss :
        \E r \in search(db, h, type_, query, options) :
            /\ calls.pc = "search"
            /\ calls' = IF r.res = "Ok"
                        THEN [pc |-> "idle", leased |-> calls.leased - 1 + Leases(r.it[1]), it |-> r.it]
                        ELSE [pc |-> "idle", leased |-> calls.leased - 1, it |-> None]
            /\ UNCHANGED <<db, handles>>

\* get_all has no `conn` of its own: its statement and its tag retriever
\* lease, and the iterator owns both
PoolGetAll ==
    \E h \in handles :
        \E r \in get_all(db, h) :
            /\ calls.pc = "idle"
            /\ calls.it = None
            /\ calls' = IF r.res = "Ok"
                        THEN [calls EXCEPT !.leased = @ + Leases(r.it[1]), !.it = r.it]
                        ELSE calls
            /\ UNCHANGED <<db, handles>>

\* an advance that deletes the item of the row it returns
PoolIterNext_ConsumesItem ==
    /\ calls.pc = "idle"
    /\ calls.it # None
    /\ \E r \in next(db, calls.it[1]) :
        /\ calls' = [calls EXCEPT !.it = Some(r.it)]
        /\ db' = IF r.it # calls.it[1]
                 THEN delete(db, "w1", calls.it[1].rows[1][r.it.iter_count].type, 1).db
                 ELSE db
        /\ UNCHANGED handles

\* advancing the iterator: it works on the connections it owns
PoolIterNext ==
    /\ calls.pc = "idle"
    /\ calls.it # None
    /\ \E r \in next(db, calls.it[1]) :
        /\ calls' = [calls EXCEPT !.it = Some(r.it)]
        /\ UNCHANGED <<db, handles>>

PoolIterGetTotalCount ==
    /\ calls.pc = "idle"
    /\ calls.it # None
    /\ get_total_count(calls.it[1]).res = "Ok"
    /\ UNCHANGED vars

\* the iterator is dropped, and its connections with it
PoolIterRelease ==
    /\ calls.pc = "idle"
    /\ calls.it # None
    /\ calls' = [calls EXCEPT !.leased = @ - Leases(calls.it[1]), !.it = None]
    /\ UNCHANGED <<db, handles>>

\* delete_storage of the open wallet, on its own connection
PoolDeleteStorage ==
    /\ calls.pc = "idle"
    /\ calls.it = None
    /\ db' = delete_storage(db, "w1", "ok", "admin").db
    /\ UNCHANGED <<handles, calls>>

NextPool ==
    \/ PoolCall
    \/ PoolGetReturn
    \/ PoolAddReturn
    \/ PoolUpdateReturn
    \/ PoolAddTagsReturn
    \/ PoolUpdateTagsReturn
    \/ PoolDeleteTagsReturn
    \/ PoolDeleteReturn
    \/ PoolGetStorageMetadataReturn
    \/ PoolSetStorageMetadataReturn
    \/ PoolSearchReturn
    \/ PoolGetAll
    \/ PoolIterNext
    \/ PoolIterGetTotalCount
    \/ PoolIterRelease
    \/ PoolDeleteStorage

SpecPool == InitPool /\ [][NextPool]_vars

----------------------------------------------------------------------------
(* Vocabulary of the properties *)

\* the options document that asks for value, type and tags
AllOptions == {<<"retrieveType", TRUE>>, <<"retrieveValue", TRUE>>, <<"retrieveTags", TRUE>>}

\* the rows of the three item and tag tables
Rows(d) == <<d.items, d.tags_encrypted, d.tags_plaintext>>

\* the tags stored for an item id, as Tag values
TagsOf(d, wallet_id, item_id) ==
    SelectEncryptedTags(d, wallet_id, item_id) \cup SelectPlainTags(d, wallet_id, item_id)

\* the tags stored for (type, name); {} when there is no such item
TagsAt(d, wallet_id, type_, id) ==
    UNION {TagsOf(d, wallet_id, x.id) : x \in SelectItem(d, wallet_id, type_, id)}

SameKey(t, u) == t.variant = u.variant /\ t.name = u.name

\* two entries of a tag list have the same variant and name
HasDuplicateKey(tags) ==
    \E i, j \in DOMAIN tags : i < j /\ SameKey(tags[i], tags[j])

\* a tag name list names tag t
Names_(tag_names, t) ==
    \E i \in DOMAIN tag_names :
        /\ tag_names[i].name = t.name
        /\ tag_names[i].variant = (IF t.variant = "Encrypted" THEN "OfEncrypted" ELSE "OfPlain")

\* `old` overridden by the list `tags`, keyed by (variant, name), latest entry first
Override(old, tags) ==
    {t \in old : ~ \E i \in DOMAIN tags : SameKey(tags[i], t)}
    \cup {tags[i] : i \in {k \in DOMAIN tags : ~ \E j \in DOMAIN tags : j > k /\ SameKey(tags[j], tags[k])}}

\* tags under a second name, added to an item before the call under study,
\* and the tag name lists that can name them
SecondNameTagLists == {<<>>, <<Encrypted(2, 1)>>, <<Encrypted(2, 1), PlainText(2, 1)>>}
AllTagNameLists == SeqsUpTo(TagNames \cup {OfEncrypted(2)}, MaxTags)

----------------------------------------------------------------------------
(* Properties *)

\* C1: after add(type, name, value, tags) succeeds, get(type, name) with
\* retrieveValue, retrieveType and retrieveTags all true returns the inserted
\* value {data, key}, the inserted type, and a tag list equal as a set to the
\* inserted tags.
C1_AddThenGet ==
    \A h \in handles, type_ \in Types, id \in Names, value \in EncryptedValues, tags \in TagLists :
        LET r == add(db, h, type_, id, value, tags) IN
        r.res = "Ok" =>
            \A g \in get(r.db, h, type_, id, AllOptions) :
                /\ g.res = "Ok"
                /\ g.record[1].name = id
                /\ g.record[1].value = Some(value)
                /\ g.record[1].type_ = Some(type_)
                /\ Len(g.record[1].tags) = 1
                /\ Range(g.record[1].tags[1]) = Range(tags)

\* an add with tags of both variants has been stored and get returns them
C1_Witness ==
    \E h \in handles, type_ \in Types, id \in Names :
        \E g \in get(db, h, type_, id, AllOptions) :
            /\ g.res = "Ok"
            /\ \E x \in db.items : x.id = db.items_id_seq /\ x.type = type_ /\ x.name = id
            /\ \E i, j \in DOMAIN g.record[1].tags[1] :
                  /\ g.record[1].tags[1][i].variant = "Encrypted"
                  /\ g.record[1].tags[1][j].variant = "PlainText"

\* C2: add on a (type, name) the wallet already holds returns
\* ItemAlreadyExists for any value and tags, and the item rows and tag rows
\* are as before the call, also when the failing add is repeated.
C2_AddExisting ==
    \A h \in handles, type_ \in Types, id \in Names, value \in EncryptedValues, tags \in TagLists :
        SelectItem(db, h, type_, id) # {} =>
            LET r == add(db, h, type_, id, value, tags)
                again == add(r.db, h, type_, id, value, tags)
            IN  /\ r.res = "ItemAlreadyExists"
                /\ Rows(r.db) = Rows(db)
                /\ again.res = "ItemAlreadyExists"
                /\ Rows(again.db) = Rows(db)

\* a stored item with tags, on which an add with another value is refused
C2_Witness ==
    \E x \in db.items, value \in EncryptedValues :
        /\ x.wallet_id \in handles
        /\ TagsOf(db, x.wallet_id, x.id) # {}
        /\ value.data # x.value
        /\ db.items_id_seq > x.id
        /\ add(db, x.wallet_id, x.type, x.name, value, <<>>).res = "ItemAlreadyExists"

\* C3: add is all-or-nothing: an add that returns an error leaves the item
\* and tag tables as they were, and an add of a new item whose tag list holds
\* two tags of the same variant and name returns ItemAlreadyExists and leaves
\* neither the item row nor any tag row of it.
C3_AddAllOrNothing ==
    \A h \in handles, type_ \in Types, id \in Names, value \in EncryptedValues, tags \in TagLists :
        LET r == add(db, h, type_, id, value, tags) IN
        /\ r.res # "Ok" => Rows(r.db) = Rows(db)
        /\ (HasDuplicateKey(tags) /\ SelectItem(db, h, type_, id) = {}) =>
              /\ r.res = "ItemAlreadyExists"
              /\ SelectItem(r.db, h, type_, id) = {}
              /\ TagsOf(r.db, h, r.db.items_id_seq) = {}

\* an add of a new item with a repeated tag name is refused after the item
\* row and the first tag were inserted
C3_Witness ==
    \E h \in handles, type_ \in Types, id \in Names, value \in EncryptedValues :
        LET tags == <<Encrypted(1, 1), Encrypted(1, 2)>>
            ins == InsertItem(db, h, type_, id, value)
        IN  /\ ins.code = NoError
            /\ InsertTag(ins.db, h, ins.item_id, tags[1]).code = NoError
            /\ add(db, h, type_, id, value, tags).res = "ItemAlreadyExists"
            /\ db.items # {}

\* C4: in every reachable state there is at most one item row for each
\* (wallet_id, type, name).
C4_ItemUnique ==
    \A x, y \in db.items :
        (x.wallet_id = y.wallet_id /\ x.type = y.type /\ x.name = y.name) => x = y

\* two items are stored and an add on the key of either is refused
C4_Witness ==
    /\ Cardinality(db.items) = 2
    /\ \A x \in db.items :
          add(db, x.wallet_id, x.type, x.name, [data |-> 1, key |-> 2], <<>>).res = "ItemAlreadyExists"

\* C5: after delete(type, name) succeeds on an existing item, the item row
\* and every tag row of both variants of that item are gone: get returns
\* ItemNotFound and no tag row references the deleted item's id.
C5_DeleteRemovesItemAndTags ==
    \A h \in handles, type_ \in Types, id \in Names :
        \A x \in SelectItem(db, h, type_, id) :
            LET r == delete(db, h, type_, id) IN
            /\ r.res = "Ok"
            /\ get(r.db, h, type_, id, AllOptions) = {[res |-> "ItemNotFound", record |-> None]}
            /\ ~ \E t \in r.db.tags_encrypted \cup r.db.tags_plaintext :
                    t.wallet_id = h /\ t.item_id = x.id

\* an item with tags of both variants, which delete removes
C5_Witness ==
    \E x \in db.items :
        /\ x.wallet_id \in handles
        /\ SelectEncryptedTags(db, x.wallet_id, x.id) # {}
        /\ SelectPlainTags(db, x.wallet_id, x.id) # {}
        /\ delete(db, x.wallet_id, x.type, x.name).res = "Ok"
        /\ \E n \in 1..db.items_id_seq : ~ \E y \in db.items : y.id = n

\* C6: in every reachable state, after any sequence of add, add_tags,
\* update_tags, delete_tags, delete and wallet delete, every tag row of either
\* variant references an existing item row with the same wallet_id.
C6_TagsReferenceItems ==
    \A t \in db.tags_encrypted \cup db.tags_plaintext :
        \E x \in db.items : x.wallet_id = t.wallet_id /\ x.id = t.item_id

\* tag rows of both variants exist while an earlier item id is gone
C6_Witness ==
    /\ db.tags_encrypted # {}
    /\ db.tags_plaintext # {}
    /\ \E n \in 1..db.items_id_seq : ~ \E x \in db.items : x.id = n

\* C7: update_tags(type, name, T) replaces the whole tag set: after it
\* succeeds get returns exactly the tags of T, none of the earlier tags
\* survives unless listed in T, and with T empty the item has no tags.  It
\* succeeds on an existing item whenever T has no repeated (variant, name).
\* Stated for every reachable state and on that state with tags of a second
\* name added to the item.
C7_UpdateTagsReplaces ==
    \A h \in handles, type_ \in Types, id \in Names, tags \in TagLists, more \in SecondNameTagLists :
        SelectItem(db, h, type_, id) # {} =>
            LET d == add_tags(db, h, type_, id, more).db
                r == update_tags(d, h, type_, id, tags)
            IN
            /\ ~ HasDuplicateKey(tags) => r.res = "Ok"
            /\ r.res = "Ok" =>
                  /\ TagsAt(r.db, h, type_, id) = Range(tags)
                  /\ more = <<>> =>
                        \A g \in get(r.db, h, type_, id, AllOptions) :
                            /\ g.res = "Ok"
                            /\ Range(g.record[1].tags[1]) = Range(tags)
                            /\ Len(g.record[1].tags[1]) = Len(tags)

\* an item with tags of both variants, which update_tags replaces by one
\* encrypted tag and, with the empty list, by nothing
C7_Witness ==
    \E x \in db.items :
        /\ x.wallet_id \in handles
        /\ TagsOf(db, x.wallet_id, x.id) = {Encrypted(1, 1), PlainText(1, 1)}
        /\ LET d == add_tags(db, x.wallet_id, x.type, x.name, <<Encrypted(2, 1)>>).db
               r == update_tags(d, x.wallet_id, x.type, x.name, <<Encrypted(1, 2)>>)
               e == update_tags(db, x.wallet_id, x.type, x.name, <<>>)
           IN  /\ TagsOf(d, x.wallet_id, x.id) = {Encrypted(1, 1), Encrypted(2, 1), PlainText(1, 1)}
               /\ r.res = "Ok" /\ TagsOf(r.db, x.wallet_id, x.id) = {Encrypted(1, 2)}
               /\ e.res = "Ok" /\ TagsOf(e.db, x.wallet_id, x.id) = {}

\* C8: add_tags(type, name, T) on an existing item never fails on a tag name
\* the item already has: afterwards the item's tags are the earlier tags
\* overridden by T, keyed by (variant, name), the latest value winning, and
\* the tags not named in T are as before.  Stated for every reachable state
\* and on that state with tags of a second name added to the item.
C8_AddTagsOverwrites ==
    \A h \in handles, type_ \in Types, id \in Names, tags \in TagLists, more \in SecondNameTagLists :
        SelectItem(db, h, type_, id) # {} =>
            LET d == add_tags(db, h, type_, id, more).db
                r == add_tags(d, h, type_, id, tags)
            IN
            /\ r.res = "Ok"
            /\ TagsAt(d, h, type_, id) = TagsAt(db, h, type_, id) \cup Range(more)
            /\ TagsAt(r.db, h, type_, id) = Override(TagsAt(d, h, type_, id), tags)
            /\ more = <<>> =>
                  \A g \in get(r.db, h, type_, id, AllOptions) :
                      Range(g.record[1].tags[1]) = Override(TagsAt(db, h, type_, id), tags)

\* an item whose encrypted tag gets a new value from add_tags while its
\* plaintext tag of the same name stays
C8_Witness ==
    \E x \in db.items :
        /\ x.wallet_id \in handles
        /\ TagsOf(db, x.wallet_id, x.id) = {Encrypted(1, 1), PlainText(1, 1)}
        /\ LET d == add_tags(db, x.wallet_id, x.type, x.name, <<Encrypted(2, 1)>>).db
               r == add_tags(d, x.wallet_id, x.type, x.name, <<Encrypted(1, 2)>>)
           IN  /\ r.res = "Ok"
               /\ TagsOf(r.db, x.wallet_id, x.id) = {Encrypted(1, 2), Encrypted(2, 1), PlainText(1, 1)}

\* C9: in every reachable state each item has at most one tag row per name in
\* each variant table, and an item that has the same name in both variants
\* has them as two distinct tags, which get returns both.
C9_TagNameUniquePerVariant ==
    /\ \A table \in {db.tags_encrypted, db.tags_plaintext} :
          \A x, y \in table :
              (x.wallet_id = y.wallet_id /\ x.item_id = y.item_id /\ x.name = y.name) => x = y
    /\ \A h \in handles, type_ \in Types, id \in Names :
          \A x \in SelectItem(db, h, type_, id) :
              \A n \in {e.name : e \in SelectEncryptedTags(db, h, x.id)}
                        \cap {p.name : p \in SelectPlainTags(db, h, x.id)} :
                  \A g \in get(db, h, type_, id, AllOptions) :
                      /\ Cardinality({i \in DOMAIN g.record[1].tags[1] :
                              g.record[1].tags[1][i].name = n}) = 2
                      /\ \E i, j \in DOMAIN g.record[1].tags[1] :
                              /\ g.record[1].tags[1][i].name = n
                              /\ g.record[1].tags[1][i].variant = "Encrypted"
                              /\ g.record[1].tags[1][j].name = n
                              /\ g.record[1].tags[1][j].variant = "PlainText"

\* an item holds one name in both variants with different values
C9_Witness ==
    \E x \in db.items :
        /\ x.wallet_id \in handles
        /\ TagsOf(db, x.wallet_id, x.id) = {Encrypted(1, 2), PlainText(1, 1)}

\* C10: delete_tags(type, name, N) on an existing item succeeds, also when a
\* listed name has no tag, and removes exactly the tags whose (variant, name)
\* is listed in N: OfEncrypted(n) never removes the plaintext tag n and
\* OfPlain(n) never the encrypted one; the item rows and the tags of other
\* items are as before.  Stated for every reachable state and on that state
\* with tags of a second name added to the item.
C10_DeleteTagsExact ==
    \A h \in handles, type_ \in Types, id \in Names, tag_names \in AllTagNameLists,
       more \in SecondNameTagLists :
        \A x \in SelectItem(db, h, type_, id) :
            LET d == add_tags(db, h, type_, id, more).db
                r == delete_tags(d, h, type_, id, tag_names)
            IN
            /\ r.res = "Ok"
            /\ TagsOf(r.db, h, x.id) = {t \in TagsOf(d, h, x.id) : ~ Names_(tag_names, t)}
            /\ r.db.items = db.items
            /\ \A table \in {"tags_encrypted", "tags_plaintext"} :
                  {t \in r.db[table] : t.item_id # x.id} = {t \in db[table] : t.item_id # x.id}

\* an item with one name in both variants: naming the encrypted tag leaves
\* the plaintext one and naming the plaintext tag leaves the encrypted one
C10_Witness ==
    \E x \in db.items :
        /\ x.wallet_id \in handles
        /\ TagsOf(db, x.wallet_id, x.id) = {Encrypted(1, 1), PlainText(1, 1)}
        /\ TagsOf(delete_tags(db, x.wallet_id, x.type, x.name, <<OfEncrypted(1)>>).db,
                  x.wallet_id, x.id) = {PlainText(1, 1)}
        /\ LET d == add_tags(db, x.wallet_id, x.type, x.name, <<Encrypted(2, 1)>>).db
           IN  TagsOf(delete_tags(d, x.wallet_id, x.type, x.name, <<OfEncrypted(1)>>).db,
                      x.wallet_id, x.id) = {Encrypted(2, 1), PlainText(1, 1)}
        /\ TagsOf(delete_tags(db, x.wallet_id, x.type, x.name, <<OfPlain(1)>>).db,
                  x.wallet_id, x.id) = {Encrypted(1, 1)}

\* C11: update(type, name, value) on an existing item returns Ok, after
\* which get returns the new {data, key}; the item's id, type and name, all
\* tag rows and every other item row are as before.
C11_UpdateChangesValueOnly ==
    \A h \in handles, type_ \in Types, id \in Names, value \in EncryptedValues :
        \A x \in SelectItem(db, h, type_, id) :
            LET r == update(db, h, type_, id, value) IN
            /\ r.res = "Ok"
            /\ \A g \in get(r.db, h, type_, id, AllOptions) :
                  /\ g.res = "Ok"
                  /\ g.record[1].value = Some(value)
                  /\ g.record[1].type_ = Some(type_)
                  /\ g.record[1].name = id
                  /\ Range(g.record[1].tags[1]) = TagsOf(db, h, x.id)
            /\ r.db.items = (db.items \ {x}) \cup {[x EXCEPT !.value = value.data, !.key = value.key]}
            /\ r.db.tags_encrypted = db.tags_encrypted
            /\ r.db.tags_plaintext = db.tags_plaintext
            /\ r.db.metadata = db.metadata

\* two items with tags are stored and an update gives one of them another
\* value while the other keeps its own
C11_Witness ==
    \E x, y \in db.items :
        /\ x # y
        /\ x.wallet_id \in handles
        /\ TagsOf(db, x.wallet_id, x.id) # {}
        /\ TagsOf(db, y.wallet_id, y.id) # {}
        /\ LET value == [data |-> 2, key |-> 1]
               r == update(db, x.wallet_id, x.type, x.name, value)
           IN  /\ x.value # value.data
               /\ x.value = y.value
               /\ r.res = "Ok"
               /\ y \in r.db.items
               /\ x \notin r.db.items

C13_TagCallsAtomicOnFailure ==
    \A h \in handles, type_ \in Types, id \in Names :
        SelectItem(db, h, type_, id) # {} =>
            /\ \A tags \in TagLists :
                  /\ LET r == update_tags(db, h, type_, id, tags)
                     IN  /\ HasDuplicateKey(tags) => r.res = "IOError"
                         /\ r.res # "Ok" => Rows(r.db) = Rows(db)
                  /\ LET r == add_tags(db, h, type_, id, tags)
                     IN  r.res # "Ok" => Rows(r.db) = Rows(db)
                  /\ \A k \in DOMAIN tags :
                        /\ LET r == add_tags_interrupted(db, h, type_, id, tags, k)
                           IN  r.res = "IOError" /\ Rows(r.db) = Rows(db)
                        /\ LET r == update_tags_interrupted(db, h, type_, id, tags, k)
                           IN  r.res = "IOError" /\ Rows(r.db) = Rows(db)
            /\ \A tag_names \in TagNameLists :
                  \A k \in DOMAIN tag_names :
                      LET r == delete_tags_interrupted(db, h, type_, id, tag_names, k)
                      IN  r.res = "IOError" /\ Rows(r.db) = Rows(db)

\* an item with tags of both variants, on which update_tags fails at its
\* second insert after the old tags were deleted and the first tag inserted
C13_Witness ==
    \E x \in db.items :
        /\ x.wallet_id \in handles
        /\ TagsOf(db, x.wallet_id, x.id) = {Encrypted(1, 1), PlainText(1, 1)}
        /\ LET tags == <<Encrypted(1, 2), Encrypted(1, 1)>>
               cleared == DeletePlainTagsOfItem(
                              DeleteEncryptedTagsOfItem(db, x.wallet_id, x.id), x.wallet_id, x.id)
               first == InsertTag(cleared, x.wallet_id, x.id, tags[1])
               r == update_tags(db, x.wallet_id, x.type, x.name, tags)
           IN  /\ first.code = NoError
               /\ TagsOf(first.db, x.wallet_id, x.id) = {Encrypted(1, 2)}
               /\ InsertTag(first.db, x.wallet_id, x.id, tags[2]).code = UNIQUE_VIOLATION
               /\ r.res = "IOError"
               /\ TagsOf(r.db, x.wallet_id, x.id) = {Encrypted(1, 1), PlainText(1, 1)}

\* C16 as stated: create for a wallet_id that already has a metadata row
\* returns AlreadyExists for every metadata blob, equal to the stored one or
\* not, and leaves the metadata rows unchanged.
C16_CreateTwiceAlreadyExists ==
    \A id \in Wallets, metadata \in Metadatas :
        SelectMetadata(db, id) # {} =>
            LET r == create_storage(db, id, "ok", "admin", metadata) IN
            /\ r.res = "AlreadyExists"
            /\ r.db.metadata = db.metadata

\* C17 as stated: in every reachable state each wallet_id has at most one
\* metadata row, so get_storage_metadata has a single possible answer.
C17_OneMetadataRowPerWallet ==
    /\ \A x, y \in db.metadata : x.wallet_id = y.wallet_id => x = y
    /\ \A id \in Wallets : Cardinality(get_storage_metadata(db, id)) = 1

\* C18: open with parsed config and credentials returns a handle exactly when
\* a metadata row of the wallet_id exists at the call, and NotFound otherwise.
C18_OpenIffMetadataRow ==
    \A id \in Wallets, credentials \in {"noadmin", "admin"} :
        LET res == open_storage(db, id, "ok", credentials) IN
        /\ res \in {"Ok", "NotFound"}
        /\ res = "Ok" <=> SelectMetadata(db, id) # {}

\* a wallet that was created, opened and deleted is refused while the other
\* wallet, which has its row, is opened
C18_Witness ==
    \E h \in handles, id \in Wallets :
        /\ SelectMetadata(db, h) = {}
        /\ open_storage(db, h, "ok", "admin") = "NotFound"
        /\ SelectMetadata(db, id) # {}
        /\ open_storage(db, id, "ok", "admin") = "Ok"

\* C19: with credentials that carry no admin account or password, init,
\* create and delete return Ok and leave the database as it was; a wallet
\* without a metadata row has none after such a create and its open returns
\* NotFound.
C19_NoAdminIsNoOp ==
    \A id \in Wallets, metadata \in Metadatas :
        LET i == init_storage(db, "ok", "noadmin")
            c == create_storage(db, id, "ok", "noadmin", metadata)
            x == delete_storage(db, id, "ok", "noadmin")
        IN  /\ i.res = "Ok" /\ i.db = db
            /\ c.res = "Ok" /\ c.db = db
            /\ x.res = "Ok" /\ x.db = db
            /\ SelectMetadata(db, id) = {} =>
                  \A credentials \in {"noadmin", "admin"} :
                      open_storage(c.db, id, "ok", credentials) = "NotFound"

\* one wallet has rows in all four tables, which a delete without admin
\* credentials keeps, and the other has none, which a create without admin
\* credentials does not provide
C19_Witness ==
    \E id, other \in Wallets :
        /\ SelectMetadata(db, id) # {}
        /\ \E x \in db.items : x.wallet_id = id
        /\ \E t \in db.tags_encrypted : t.wallet_id = id
        /\ \E t \in db.tags_plaintext : t.wallet_id = id
        /\ delete_storage(db, id, "ok", "noadmin").db = db
        /\ SelectMetadata(db, other) = {}
        /\ open_storage(create_storage(db, other, "ok", "noadmin", 1).db, other, "ok", "admin")
              = "NotFound"

\* C20: when delete_storage with admin credentials returns Ok, no metadata,
\* item or tag row of that wallet_id remains, a following open of it
\* returns NotFound, and the rows of every other wallet are as before.
C20_DeleteStorageRemovesWallet ==
    \A id \in Wallets :
        LET r == delete_storage(db, id, "ok", "admin") IN
        r.res = "Ok" =>
            /\ \A table \in {"metadata", "items", "tags_encrypted", "tags_plaintext"} :
                  /\ ~ \E x \in r.db[table] : x.wallet_id = id
                  /\ {x \in r.db[table] : x.wallet_id # id} = {x \in db[table] : x.wallet_id # id}
            /\ \A credentials \in {"noadmin", "admin"} :
                  open_storage(r.db, id, "ok", credentials) = "NotFound"

\* both wallets have a metadata row and an item with tags of both variants,
\* and the delete of one of them returns Ok
C20_Witness ==
    /\ \A id \in Wallets :
          /\ SelectMetadata(db, id) # {}
          /\ \E x \in db.items : x.wallet_id = id
          /\ \E t \in db.tags_encrypted : t.wallet_id = id
          /\ \E t \in db.tags_plaintext : t.wallet_id = id
    /\ \E id \in Wallets : delete_storage(db, id, "ok", "admin").res = "Ok"

\* C14 as stated: a get with retrieveTags that runs concurrently with one
\* add, update_tags, add_tags, delete_tags or delete on the same item returns
\* ItemNotFound or a record whose tag list is the item's complete tag set as
\* it was entirely before or entirely after that operation, never a mixture
\* and never the item with its tags missing.
C14_GetSeesWholeTagSet ==
    (calls.reader.pc = "done" /\ calls.reader.res = "Ok") =>
        Some(Range(calls.reader.record.tags[1])) \in calls.reader.seen

\* C15 as stated: when two callers concurrently add the same (type, name)
\* to the same wallet, exactly one add succeeds and the other returns
\* ItemAlreadyExists, and afterwards the item has the value and exactly the
\* tag set of the successful call.
C15_ExactlyOneAddSucceeds ==
    (\A c \in Callers : calls[c].pc = "done") =>
        \E c \in Callers :
            /\ calls[c].res = "Ok"
            /\ \A o \in Callers \ {c} : calls[o].res = "ItemAlreadyExists"
            /\ \A g \in get(db, calls[c].h, 1, 1, AllOptions) :
                  /\ g.res = "Ok"
                  /\ g.record[1].value = Some(calls[c].value)
                  /\ Range(g.record[1].tags[1]) = Range(calls[c].tags)

\* C15 amended: of two concurrent adds of the same (type, name) at most one
\* succeeds and every other returns ItemAlreadyExists; exactly one succeeds
\* when at least one of the tag lists has no repeated (variant, name); the
\* item then has the value and exactly the tag set of the successful call,
\* and when none succeeds there is no item and no tag row.
C15_AtMostOneAddSucceeds ==
    (\A c \in Callers : calls[c].pc = "done") =>
        /\ \A c \in Callers : calls[c].res \in {"Ok", "ItemAlreadyExists"}
        /\ Cardinality({c \in Callers : calls[c].res = "Ok"}) <= 1
        /\ (\E c \in Callers : ~ HasDuplicateKey(calls[c].tags)) =>
              \E c \in Callers : calls[c].res = "Ok"
        /\ \A c \in Callers :
              calls[c].res = "Ok" =>
                  \A g \in get(db, calls[c].h, 1, 1, AllOptions) :
                      /\ g.res = "Ok"
                      /\ g.record[1].value = Some(calls[c].value)
                      /\ Range(g.record[1].tags[1]) = Range(calls[c].tags)
                      /\ Len(g.record[1].tags[1]) = Len(calls[c].tags)
        /\ (\A c \in Callers : calls[c].res # "Ok") => Rows(db) = Rows(EmptyDb)
        /\ Cardinality(db.items) <= 1
        /\ \A t \in db.tags_encrypted \cup db.tags_plaintext : \E x \in db.items : x.id = t.item_id

\* both adds ran at once with different values and tags, one waited for the
\* other's transaction, and one succeeded while the other was refused
C15_Witness ==
    /\ \A c \in Callers : calls[c].pc = "done"
    /\ calls["a"].value # calls["b"].value
    /\ calls["a"].tags = <<Encrypted(1, 1)>>
    /\ calls["b"].tags = <<PlainText(1, 1)>>
    /\ calls["a"].res = "ItemAlreadyExists"
    /\ calls["b"].res = "Ok"
    /\ TagsAt(db, "w1", 1, 1) = {PlainText(1, 1)}
    /\ db.items_id_seq = 2

\* the wallet id has no row in any of the four tables
NoRowOf(d, wallet_id) ==
    \A table \in {"metadata", "items", "tags_encrypted", "tags_plaintext"} :
        \A x \in d[table] : x.wallet_id # wallet_id

\* C21 as stated: delete of a wallet id that has no row in any of the four
\* tables returns NotFound and changes nothing, whatever the config and
\* credentials of the call.
C21_DeleteMissingNotFound ==
    \A id \in Wallets, config \in Configs, credentials \in Credentialss :
        NoRowOf(db, id) =>
            delete_storage(db, id, config, credentials) = [db |-> db, res |-> "NotFound"]

\* C21 amended: delete of a wallet id that has no row in any of the four
\* tables, called with a parseable config and credentials that hold the
\* admin account and password, returns NotFound; with any config and
\* credentials it changes nothing, including the rows of other wallets.
C21_DeleteMissingNotFoundWithAdmin ==
    \A id \in Wallets :
        NoRowOf(db, id) =>
            /\ delete_storage(db, id, "ok", "admin") = [db |-> db, res |-> "NotFound"]
            /\ \A config \in Configs, credentials \in Credentialss :
                  delete_storage(db, id, config, credentials).db = db

\* wallet w2 has no row while w1 has a Metadata row and an item with tags
C21_Witness ==
    /\ NoRowOf(db, "w2")
    /\ \E x \in db.metadata : x.wallet_id = "w1"
    /\ TagsAt(db, "w1", 1, 1) = {Encrypted(1, 1), PlainText(1, 1)}
    /\ delete_storage(db, "w2", "ok", "admin").res = "NotFound"

\* C22 as stated: on an open handle get_storage_metadata returns the blob
\* passed to create, and after set_storage_metadata(b) succeeds on an open
\* handle it returns b; set_storage_metadata leaves item and tag rows alone.
C22_MetadataRoundTrip ==
    /\ \A id \in Wallets, metadata \in Metadatas, credentials \in {"noadmin", "admin"} :
          LET c == create_storage(db, id, "ok", credentials, metadata)
          IN  (SelectMetadata(db, id) = {} /\ c.res = "Ok"
                  /\ open_storage(c.db, id, "ok", credentials) = "Ok") =>
                  get_storage_metadata(c.db, id) = {[res |-> "Ok", value |-> Some(metadata)]}
    /\ \A h \in handles, b \in Metadatas :
          LET s == set_storage_metadata(db, h, b)
          IN  s.res = "Ok" =>
                  /\ get_storage_metadata(s.db, h) = {[res |-> "Ok", value |-> Some(b)]}
                  /\ Rows(s.db) = Rows(db)

\* C22 amended: on an open handle whose wallet has a Metadata row,
\* get_storage_metadata returns the blob of a Metadata row of that wallet
\* (the blob passed to the create that made the wallet), and after
\* set_storage_metadata(b) succeeds it returns b; on a handle whose wallet
\* has no Metadata row set_storage_metadata succeeds and
\* get_storage_metadata returns ItemNotFound.  set_storage_metadata never
\* changes an item or tag row, nor a Metadata row of another wallet.
C22_MetadataRoundTripWhileWalletExists ==
    /\ \A id \in Wallets, metadata \in Metadatas, credentials \in {"noadmin", "admin"} :
          LET c == create_storage(db, id, "ok", credentials, metadata)
          IN  (SelectMetadata(db, id) = {} /\ c.res = "Ok"
                  /\ open_storage(c.db, id, "ok", credentials) = "Ok") =>
                  get_storage_metadata(c.db, id) = {[res |-> "Ok", value |-> Some(metadata)]}
    /\ \A h \in handles :
          /\ \A g \in get_storage_metadata(db, h) :
                IF SelectMetadata(db, h) = {}
                THEN g = [res |-> "ItemNotFound", value |-> None]
                ELSE g.res = "Ok" /\ \E x \in SelectMetadata(db, h) : g.value = Some(x.value)
          /\ \A b \in Metadatas :
                LET s == set_storage_metadata(db, h, b)
                IN  /\ Rows(s.db) = Rows(db)
                    /\ \A x \in db.metadata : x.wallet_id # h => x \in s.db.metadata
                    /\ \A x \in s.db.metadata : x.wallet_id # h => x \in db.metadata
                    /\ SelectMetadata(db, h) = {} =>
                          /\ s.res = "Ok"
                          /\ get_storage_metadata(s.db, h) = {[res |-> "ItemNotFound", value |-> None]}
                    /\ (SelectMetadata(db, h) # {} /\ s.res = "Ok") =>
                          get_storage_metadata(s.db, h) = {[res |-> "Ok", value |-> Some(b)]}

\* wallet w1 is open with blob 1 and an item with tags, w2 has its own row,
\* and set_storage_metadata(2) through w1's handle succeeds
C22_Witness ==
    /\ "w1" \in handles
    /\ get_storage_metadata(db, "w1") = {[res |-> "Ok", value |-> Some(1)]}
    /\ SelectMetadata(db, "w2") # {}
    /\ TagsAt(db, "w1", 1, 1) = {Encrypted(1, 1), PlainText(1, 1)}
    /\ set_storage_metadata(db, "w1", 2).res = "Ok"
    /\ get_storage_metadata(set_storage_metadata(db, "w1", 2).db, "w1") = {[res |-> "Ok", value |-> Some(2)]}

\* C23: set_storage_metadata through a handle whose wallet has no Metadata
\* row (the wallet was deleted after open) creates no row: the database is
\* left as it was and a later open of the wallet still returns NotFound.
C23_SetNeverCreatesRow ==
    \A h \in handles, b \in Metadatas :
        SelectMetadata(db, h) = {} =>
            LET s == set_storage_metadata(db, h, b)
            IN  /\ SelectMetadata(s.db, h) = {}
                /\ s.db = db
                /\ \A credentials \in {"noadmin", "admin"} :
                      open_storage(s.db, h, "ok", credentials) = "NotFound"

\* w1 was opened and then deleted, while w2 still has its Metadata row
C23_Witness ==
    /\ "w1" \in handles
    /\ SelectMetadata(db, "w1") = {}
    /\ SelectMetadata(db, "w2") # {}
    /\ set_storage_metadata(db, "w1", 2).res = "Ok"

\* the database without any row of one wallet
WithoutWallet(d, wallet_id) ==
    [d EXCEPT !.metadata = {x \in @ : x.wallet_id # wallet_id},
              !.items = {x \in @ : x.wallet_id # wallet_id},
              !.tags_encrypted = {x \in @ : x.wallet_id # wallet_id},
              !.tags_plaintext = {x \in @ : x.wallet_id # wallet_id}]

\* the rows of one wallet in the four tables
RowsOfWallet(d, wallet_id) ==
    <<{x \in d.metadata : x.wallet_id = wallet_id},
      {x \in d.items : x.wallet_id = wallet_id},
      {x \in d.tags_encrypted : x.wallet_id = wallet_id},
      {x \in d.tags_plaintext : x.wallet_id = wallet_id}>>

\* a write through wallet a's handle gives the same result and the same
\* rows of a with and without the rows of wallet b, and leaves b's rows alone
Isolated(with, without, d, a, b) ==
    /\ with.res = without.res
    /\ RowsOfWallet(with.db, b) = RowsOfWallet(d, b)
    /\ RowsOfWallet(with.db, a) = RowsOfWallet(without.db, a)

\* the tag lists and tag name lists the isolation property calls with
IsolationTagLists ==
    {<<>>, <<Encrypted(1, 2)>>, <<Encrypted(1, 1), PlainText(1, 1)>>, <<Encrypted(1, 1), Encrypted(1, 2)>>}
IsolationTagNameLists == {<<>>, <<OfEncrypted(1)>>, <<OfPlain(1), OfEncrypted(1)>>}

\* every record a get_all iterator yields from each of its positions
Yields(d, it) ==
    UNION {{<<j, r.res, r.record>> : r \in next(d, [it EXCEPT !.iter_count = j])} :
              j \in 0..Len(it.rows[1])}

\* C24: wallet isolation of the Record Store.  For a handle of wallet a and
\* any other wallet b, every get, add, update, delete, add_tags,
\* update_tags, delete_tags, get_all (with the advances of its iterator)
\* and metadata call through the handle returns what it returns when b has
\* no row at all, changes a's rows the same way, and changes no row of b;
\* so the same (type, name) is added to a whether or not b holds it.
C24_WalletIsolation ==
    \A a \in handles : \A b \in Wallets \ {a} :
        LET d0 == WithoutWallet(db, b)
        IN  /\ \A type_ \in Types, id \in Names :
                  /\ get(db, a, type_, id, AllOptions) = get(d0, a, type_, id, AllOptions)
                  /\ \A g \in get(db, a, type_, id, AllOptions) :
                        g.res = "Ok" => \E x \in db.items :
                            x.wallet_id = a /\ x.type = type_ /\ x.name = id
                               /\ g.record[1].value = Some([data |-> x.value, key |-> x.key])
                               /\ Range(g.record[1].tags[1]) = TagsOf(db, a, x.id)
                  /\ Isolated(delete(db, a, type_, id), delete(d0, a, type_, id), db, a, b)
                  /\ \A value \in EncryptedValues :
                        /\ Isolated(update(db, a, type_, id, value), update(d0, a, type_, id, value), db, a, b)
                        /\ \A tags \in IsolationTagLists :
                              Isolated(add(db, a, type_, id, value, tags),
                                       add(d0, a, type_, id, value, tags), db, a, b)
                  /\ \A tags \in IsolationTagLists :
                        /\ Isolated(add_tags(db, a, type_, id, tags), add_tags(d0, a, type_, id, tags), db, a, b)
                        /\ Isolated(update_tags(db, a, type_, id, tags),
                                    update_tags(d0, a, type_, id, tags), db, a, b)
                  /\ \A tag_names \in IsolationTagNameLists :
                        Isolated(delete_tags(db, a, type_, id, tag_names),
                                 delete_tags(d0, a, type_, id, tag_names), db, a, b)
            /\ get_all(db, a) = get_all(d0, a)
            /\ \A r \in get_all(db, a) :
                  /\ r.res = "Ok"
                  /\ \A i \in DOMAIN r.it[1].rows[1] : r.it[1].rows[1][i].wallet_id = a
                  /\ Yields(db, r.it[1]) = Yields(d0, r.it[1])
            /\ get_storage_metadata(db, a) = get_storage_metadata(d0, a)
            /\ \A metadata \in Metadatas :
                  Isolated(set_storage_metadata(db, a, metadata),
                           set_storage_metadata(d0, a, metadata), db, a, b)

\* both wallets are open and hold an item of the same type and name, the
\* item of w1 with tags and the one of w2 without
C24_Witness ==
    /\ handles = {"w1", "w2"}
    /\ SelectItem(db, "w1", 1, 1) # {}
    /\ SelectItem(db, "w2", 1, 1) # {}
    /\ TagsAt(db, "w1", 1, 1) = {Encrypted(1, 1), PlainText(1, 1)}
    /\ TagsAt(db, "w2", 1, 1) = {}
    /\ add(WithoutWallet(db, "w1"), "w1", 1, 1, [data |-> 1, key |-> 2], <<>>).res = "Ok"

\* the items of a wallet that a search for (type_, query) is about
ItemsInScope(d, wallet_id, type_, query) ==
    {x \in d.items : x.wallet_id = wallet_id /\ x.type = type_ /\ Matches(d, x, query)}

\* C25: search through a handle of wallet a is scoped to a: every row its
\* iterator holds, and the total count it reports, cover only items stored
\* under a's wallet_id.
C25_SearchScopedToWallet ==
    \A a \in handles, type_ \in Types, query \in Queries, options \in SearchOptionss :
        \A r \in search(db, a, type_, query, options) :
            r.res = "Ok" =>
                /\ r.it[1].rows # None =>
                      \A i \in DOMAIN r.it[1].rows[1] : r.it[1].rows[1][i].wallet_id = a
                /\ r.it[1].total_count # None =>
                      r.it[1].total_count = Some(Cardinality(ItemsInScope(db, a, type_, query)))

\* the number of records an iterator yields before an advance signals
\* exhaustion or fails
RECURSIVE RecordsYielded(_, _)
RecordsYielded(d, it) ==
    LET r == CHOOSE x \in next(d, it) : TRUE
    IN  IF r.res # "Ok" \/ r.record = None THEN 0 ELSE 1 + RecordsYielded(d, r.it)

CountOnly == Some({<<"retrieveRecords", FALSE>>, <<"retrieveTotalCount", TRUE>>})

C27_GetAllYieldsEveryItemOnce ==
    /\ \A a \in {h \in handles : calls.it = None} :
          \A r \in get_all(db, a) :
              /\ r.res = "Ok"
              /\ r.it[1].rows # None
              /\ Range(r.it[1].rows[1]) = {x \in db.items : x.wallet_id = a}
              /\ Len(r.it[1].rows[1]) = Cardinality({x \in db.items : x.wallet_id = a})
              /\ RecordsYielded(db, r.it[1]) = Cardinality({x \in db.items : x.wallet_id = a})
              /\ \A j \in 0..Len(r.it[1].rows[1]) :
                    \A y \in next(db, [r.it[1] EXCEPT !.iter_count = j]) :
                        /\ y.res = "Ok"
                        /\ IF j = Len(r.it[1].rows[1]) THEN y.record = None
                           ELSE LET row == r.it[1].rows[1][j + 1]
                                IN  /\ y.record # None
                                    /\ y.it.iter_count = j + 1
                                    /\ y.record[1].name = row.name
                                    /\ y.record[1].type_ = Some(row.type)
                                    /\ y.record[1].value = Some([data |-> row.value, key |-> row.key])
                                    /\ y.record[1].tags # None
                                    /\ Range(y.record[1].tags[1]) = TagsOf(db, a, row.id)
                                    /\ Len(y.record[1].tags[1]) = Cardinality(TagsOf(db, a, row.id))
    /\ (calls.source = "get_all" /\ calls.it[1].iter_count < Len(calls.it[1].rows[1])) =>
          \A y \in next(db, calls.it[1]) :
              LET row == calls.it[1].rows[1][calls.it[1].iter_count + 1]
              IN  /\ y.res = "Ok"
                  /\ y.record # None
                  /\ row.wallet_id = calls.h
                  /\ y.record[1].type_ = Some(row.type)
                  /\ y.record[1].value = Some([data |-> row.value, key |-> row.key])
                  /\ Range(y.record[1].tags[1]) = TagsOf(db, calls.h, row.id)

\* a get_all iterator over a wallet with an item of each type, one of them
\* tagged, has yielded both and signalled exhaustion
C27_Witness ==
    /\ calls.source = "get_all"
    /\ calls.h = "w1"
    /\ Len(calls.it[1].rows[1]) = 2
    /\ calls.it[1].iter_count = 2
    /\ calls.ended
    /\ {x.type : x \in SelectAllItems(db, "w1")} = Types
    /\ TagsAt(db, "w1", 1, 1) = {Encrypted(1, 1), PlainText(1, 1)}

\* C28: get_total_count of an iterator returns the same answer at every
\* point of the iterator's life: the count computed when search was called
\* if retrieveTotalCount was set, and none otherwise (always none for
\* get_all).
C28_TotalCountFixed ==
    /\ \A a \in {h \in handles : calls.it = None} :
          /\ \A r \in get_all(db, a) : r.res = "Ok" => get_total_count(r.it[1]).count = None
          /\ \A type_ \in Types, query \in Queries, options \in SearchOptionss :
                \A r \in search(db, a, type_, query, options) :
                    r.res = "Ok" =>
                        get_total_count(r.it[1]) =
                            [res |-> "Ok",
                             count |-> IF SearchOptions(options).retrieve_total_count
                                       THEN Some(Cardinality(QueryRows(db, wql_to_sql_count(type_, query))))
                                       ELSE None]
    /\ calls.it # None =>
          /\ get_total_count(calls.it[1]) = [res |-> "Ok", count |-> calls.total_at_call]
          /\ calls.source = "get_all" => calls.total_at_call = None
          /\ \A y \in next(db, calls.it[1]) : get_total_count(y.it) = get_total_count(calls.it[1])

\* an iterator of a search with records and total count has been consumed
\* to exhaustion, and the item it counted has since been deleted
C28_Witness ==
    /\ calls.source = "search"
    /\ calls.total_at_call = Some(1)
    /\ calls.it[1].rows # None
    /\ calls.it[1].iter_count = 1
    /\ calls.ended
    /\ db.items = {}
    /\ get_total_count(calls.it[1]).count = Some(1)

\* C29: search with retrieveRecords=false returns an iterator whose first
\* advance, and every later advance, signals exhaustion without yielding a
\* record, while get_total_count still returns the count when
\* retrieveTotalCount was set.
C29_NoRecordsIteratorIsExhausted ==
    /\ \A a \in {h \in handles : calls.it = None}, type_ \in Types, query \in Queries, options \in SearchOptionss :
          ~ SearchOptions(options).retrieve_records =>
              \A r \in search(db, a, type_, query, options) :
                  /\ r.res = "Ok"
                  /\ r.it[1].rows = None
                  /\ next(db, r.it[1]) = {[it |-> r.it[1], res |-> "Ok", record |-> None]}
                  /\ SearchOptions(options).retrieve_total_count =>
                        get_total_count(r.it[1]).count =
                            Some(Cardinality(QueryRows(db, wql_to_sql_count(type_, query))))
    /\ (calls.it # None /\ calls.it[1].rows = None) =>
          /\ next(db, calls.it[1]) = {[it |-> calls.it[1], res |-> "Ok", record |-> None]}
          /\ get_total_count(calls.it[1]).count = calls.total_at_call

\* the iterator of a count-only search over a stored item has been advanced
\* and still carries its count
C29_Witness ==
    /\ calls.source = "search"
    /\ calls.it[1].rows = None
    /\ calls.ended
    /\ calls.total_at_call = Some(1)
    /\ db.items # {}

\* C30: successive advances of one iterator yield the rows of its result set
\* one at a time in the order held, each row exactly once and never a row
\* already returned, and once an advance has signalled exhaustion every
\* advance signals exhaustion.
C30_IteratorProtocol ==
    (calls.it # None /\ calls.it[1].rows # None) =>
        LET it == calls.it[1]
            rows == it.rows[1]
        IN  /\ it.iter_count <= Len(rows)
            /\ \A i, j \in DOMAIN rows : i # j => rows[i] # rows[j]
            /\ calls.ended => it.iter_count = Len(rows)
            /\ \A y \in next(db, it) :
                  IF it.iter_count < Len(rows)
                  THEN /\ y.it = [it EXCEPT !.iter_count = @ + 1]
                       /\ y.res = "Ok" =>
                             /\ y.record # None
                             /\ y.record[1].name = rows[it.iter_count + 1].name
                             /\ it.options.retrieve_type =>
                                   y.record[1].type_ = Some(rows[it.iter_count + 1].type)
                  ELSE y = [it |-> it, res |-> "Ok", record |-> None]

\* an iterator over two rows has returned both and then signalled
\* exhaustion, while one of the two items was deleted after the call
C30_Witness ==
    /\ calls.it # None
    /\ calls.it[1].rows # None
    /\ Len(calls.it[1].rows[1]) = 2
    /\ calls.it[1].iter_count = 2
    /\ calls.ended
    /\ Cardinality(db.items) = 1

\* C31: a live iterator returned by search or get_all that streams rows
\* holds exactly one leased connection of the handle's pool, whatever its
\* options.
C31_IteratorHoldsOneConnection ==
    (calls.it # None /\ calls.it[1].rows # None) => Leases(calls.it[1]) = 1

\* what an options document asks for under a key with the given default
Asks(doc, key, default) ==
    \/ <<key, TRUE>> \in doc
    \/ default /\ <<key, FALSE>> \notin doc

\* a record carries exactly the fields asked for
Projected(record, name, value, type_, tags) ==
    /\ record.name = name
    /\ (record.value # None) <=> value
    /\ (record.type_ # None) <=> type_
    /\ (record.tags # None) <=> tags

\* C32: a record returned by get carries the name always, the value iff
\* retrieveValue is true, the type iff retrieveType is true and the tag list
\* iff retrieveTags is true; "{}" for get and an absent options argument for
\* search resolve to the defaults (value only, records streamed, no total
\* count); records yielded by search and get_all follow the same projection.
C32_FieldProjection ==
    \A a \in {h \in handles : calls.it = None} :
        /\ \A type_ \in Types, id \in Names, doc \in OptionDocs :
              \A g \in get(db, a, type_, id, doc) :
                  g.res = "Ok" =>
                      /\ Projected(g.record[1], id, Asks(doc, "retrieveValue", TRUE),
                                   Asks(doc, "retrieveType", FALSE), Asks(doc, "retrieveTags", FALSE))
                      /\ g.record[1].type_ # None => g.record[1].type_ = Some(type_)
                      /\ doc = {} => Projected(g.record[1], id, TRUE, FALSE, FALSE)
        /\ \A type_ \in Types, query \in Queries, options \in SearchOptionss :
              \A r \in search(db, a, type_, query, options) :
                  /\ options = None =>
                        /\ r.res = "Ok"
                        /\ r.it[1].rows # None
                        /\ r.it[1].total_count = None
                        /\ \A y \in Yields(db, r.it[1]) :
                              y[3] # None => Projected(y[3][1], 1, TRUE, FALSE, FALSE)
                  /\ (options # None /\ r.res = "Ok" /\ r.it[1].rows # None) =>
                        \A y \in Yields(db, r.it[1]) :
                            /\ y[2] = "Ok"
                            /\ y[3] # None =>
                                  Projected(y[3][1], 1, Asks(options[1], "retrieveValue", TRUE),
                                            Asks(options[1], "retrieveType", FALSE),
                                            Asks(options[1], "retrieveTags", FALSE))
        /\ \A r \in get_all(db, a) :
              \A y \in Yields(db, r.it[1]) :
                  y[3] # None => Projected(y[3][1], 1, TRUE, TRUE, TRUE)

\* w1 holds a tagged item: get with "{}" returns its value only, get with
\* all three keys true returns value, type and both tags, and a search with
\* retrieveType true and retrieveValue false yields the type without value
C32_Witness ==
    /\ calls.it = None
    /\ TagsAt(db, "w1", 1, 1) = {Encrypted(1, 1), PlainText(1, 1)}
    /\ \A g \in get(db, "w1", 1, 1, {}) :
          g.res = "Ok" /\ g.record[1].value # None /\ g.record[1].tags = None
    /\ \A g \in get(db, "w1", 1, 1, AllOptions) :
          g.res = "Ok" /\ g.record[1].type_ = Some(1) /\ Len(g.record[1].tags[1]) = 2
    /\ \A r \in search(db, "w1", 1, AndOfNothing,
                       Some({<<"retrieveType", TRUE>>, <<"retrieveValue", FALSE>>, <<"retrieveTotalCount", TRUE>>})) :
          \E y \in Yields(db, r.it[1]) : y[3] # None /\ y[3][1].value = None /\ y[3][1].type_ = Some(1)

\* the operations that only read
ReadOps == {"get", "search", "get_storage_metadata"}

\* C33: the read operations (get, get_all, search, advancing an iterator,
\* get_total_count, get_storage_metadata) leave the items table, both tag
\* tables and the metadata table unchanged, whether they succeed or fail.
C33_ReadsChangeNothing ==
    [][(calls.pc \in ReadOps \/ calls'.it # calls.it) => db' = db]_vars

\* an iterator over a stored item has been advanced past its first record
C33_Witness ==
    /\ db.items # {}
    /\ calls.it # None
    /\ calls.it[1].rows # None
    /\ calls.it[1].iter_count = 1

\* C34: init, create, open or delete called with unparseable config or
\* credentials, or with config or credentials absent, returns ConfigError
\* and leaves the stored state unchanged.
C34_MalformedJsonIsConfigError ==
    \A id \in Wallets, config \in Configs, credentials \in Credentialss, metadata \in Metadatas :
        (config \in {"none", "bad"} \/ credentials \in {"none", "bad"}) =>
            /\ init_storage(db, config, credentials) = [db |-> db, res |-> "ConfigError"]
            /\ create_storage(db, id, config, credentials, metadata) = [db |-> db, res |-> "ConfigError"]
            /\ open_storage(db, id, config, credentials) = "ConfigError"
            /\ delete_storage(db, id, config, credentials) = [db |-> db, res |-> "ConfigError"]

\* C35: a Record Store or Search operation that fails to lease a connection
\* from the pool returns an IOError; no operation aborts.
C35_LeaseFailureIsIOError ==
    calls.pc = "idle" => PoolGet(calls.leased) \in {"Ok", "IOError"}

\* C36: on a handle with no other outstanding lease, every search that
\* requests records, whatever retrieveTags and retrieveTotalCount, and every
\* get_all obtains the connections it needs and returns an iterator.
C36_SearchFitsThePool ==
    \A a \in {h \in handles : calls.it = None} :
        /\ \A type_ \in Types, query \in Queries, options \in SearchOptionss :
              SearchOptions(options).retrieve_records =>
                  \A r \in search(db, a, type_, query, options) : r.res = "Ok"
        /\ \A r \in get_all(db, a) : r.res = "Ok"

\* C37: no connection leak: an operation in progress holds the one
\* connection it leased and has returned it when it returns, on every return
\* path; an iterator that streams rows keeps a connection while it is alive
\* and returns what it holds when it is released; with no operation in
\* progress and no iterator alive the handle has zero leased connections.
C37_NoConnectionLeak ==
    /\ calls.leased <= POOL_MAX_SIZE
    /\ calls.leased = (IF calls.pc = "idle" THEN 0 ELSE 1)
                      + (IF calls.it = None THEN 0 ELSE Leases(calls.it[1]))
    /\ (calls.it # None /\ calls.it[1].rows # None) => calls.leased >= 1
    /\ (calls.pc = "idle" /\ calls.it = None) => calls.leased = 0

\* both items were added and deleted again, every operation has returned
\* and no iterator is alive
C37_Witness ==
    /\ calls.pc = "idle"
    /\ calls.it = None
    /\ calls.leased = 0
    /\ db.items_id_seq = MaxItemId
    /\ db.items = {}

\* the rows of the four tables
Tables(d) == <<d.items, d.tags_encrypted, d.tags_plaintext, d.metadata>>

\* C38: wallet delete returns success whenever it removed at least one row
\* of the wallet from any of the four tables, and NotFound only when it
\* removed no row at all.
C38_DeleteReflectsRemoval ==
    \A id \in Wallets :
        LET r == delete_storage(db, id, "ok", "admin")
        IN  /\ Tables(r.db) # Tables(db) => r.res = "Ok"
            /\ r.res = "NotFound" => Tables(r.db) = Tables(db)

\* C39: every item and tag row has a wallet_id for which a Metadata row
\* exists, also after a wallet delete interleaved with operations on a
\* handle opened before it.
C39_ItemsNeverOutliveWallet ==
    \A x \in db.items \cup db.tags_encrypted \cup db.tags_plaintext :
        \E w \in db.metadata : w.wallet_id = x.wallet_id

\* C40: item ids are assigned in strictly increasing order and never
\* reused: no stored id exceeds the ids drawn so far and no two items share
\* one; an add gives its item an id above every id drawn before; an item
\* added after the delete of an item with the same (type, name) gets an id
\* above that of the deleted item, and get with retrieveTags on it returns
\* exactly the tags of the new add.
C40_IdsIncreaseAndAreNeverReused ==
    /\ \A x \in db.items : x.id \in 1..db.items_id_seq
    /\ \A x, y \in db.items : x.id = y.id => x = y
    /\ \A a \in handles, tags \in LifeTagLists :
          LET value == [data |-> 1, key |-> 2]
              r == add(db, a, 1, 1, value, tags)
          IN  /\ r.db.items_id_seq > db.items_id_seq
              /\ r.res = "Ok" =>
                    \A x \in r.db.items \ db.items : x.id > db.items_id_seq
              /\ \A old \in SelectItem(db, a, 1, 1) :
                    LET deleted == delete(db, a, 1, 1)
                        again == add(deleted.db, a, 1, 1, value, tags)
                    IN  /\ deleted.res = "Ok"
                        /\ again.res = "Ok"
                        /\ \A x \in SelectItem(again.db, a, 1, 1) : x.id > old.id
                        /\ \A g \in get(again.db, a, 1, 1, {<<"retrieveTags", TRUE>>}) :
                              /\ g.res = "Ok"
                              /\ Len(g.record[1].tags[1]) = Len(tags)
                              /\ Range(g.record[1].tags[1]) = Range(tags)

\* the one stored item is w1's and carries the second id drawn, the item
\* with the first id is gone and no tag row is left of it
C40_Witness ==
    /\ "w1" \in handles
    /\ db.items_id_seq = 2
    /\ \E x \in db.items : x.id = 2 /\ x.wallet_id = "w1" /\ db.items = {x}
    /\ db.tags_encrypted = {}
    /\ db.tags_plaintext = {}

====
